---- MODULE Spec2Model ----
(***************************************************************************)
(* Rule evaluation, decision matrix and replay worker of the fraud         *)
(* platform                                                                *)
(* (src/platform/api/src/services).                                        *)
(*                                                                         *)
(* Numbers: every float of the source (risk scores, confidences, false     *)
(* positive rates) is a fixed-point integer in units of 1/One, so 0.3 is   *)
(* 3000 and an FPR of 0.001 is 10.  Python's true division a / b is        *)
(* Ratio(a, b); a zero divisor raises ZeroDivisionError, which is the      *)
(* value Raised("ZeroDivisionError") here.                                 *)
(*                                                                         *)
(* Types: decision_matrix.py imports RiskBand from decision_core.py, which *)
(* does not define it; the enum meant is the one of schemas/validation.py  *)
(* (low, med, high, critical).  A risk band is modelled by its .value, so  *)
(* the string bands of DecisionCore._get_risk_band and the enum bands of   *)
(* DecisionMatrixEngine are the same values.  DecisionMatrixEngine builds  *)
(* its results with the keywords action, confidence, reasons, rules_fired, *)
(* metadata; the result records here carry exactly those fields.           *)
(* decision_core.py uses RuleDefinition, RuleEvaluationContext and         *)
(* DecisionMatrixEngine without importing them; the names are resolved to  *)
(* the classes of rule_engine.py and decision_matrix.py.                   *)
(***************************************************************************)
EXTENDS Integers, Sequences, FiniteSets, TLC

VARIABLES
    config,     \* DecisionMatrixEngine.config (entries, default_action, default_max_fpr)
    matrix,     \* DecisionMatrixEngine.matrix: key string -> entry
    updates,    \* number of add_matrix_entry / remove_matrix_entry calls made so far
    call,       \* the last operation called, with its arguments and what it returned
    gate,       \* DecisionGate.decision_matrix, and the update_matrix call in flight
    worker,     \* the ReplayWorker: jobs, is_running, processing_queue
    tasks,      \* the coroutines of run_once and start_worker, each at its await
    enqueues    \* number of enqueue_replay calls made so far

vars == <<config, matrix, updates, call, gate, worker, tasks, enqueues>>

\* 1.0 in fixed point
One == 10000

\* at most this many runtime changes of the matrix in one behaviour
MaxUpdates == 2

None == "None"

NoCall == [op |-> "none"]

Min(a, b) == IF a <= b THEN a ELSE b

Max(a, b) == IF a >= b THEN a ELSE b

\* f"{x:.2f}": x rounded to two decimals (units of 1/100), half to even
Fmt2(x) ==
    LET q == x \div 100
        r == x % 100
    IN  IF r > 50 \/ (r = 50 /\ q % 2 = 1) THEN q + 1 ELSE q

\* f"{x:.3f}": x rounded to three decimals (units of 1/1000), half to even
Fmt3(x) ==
    LET q == x \div 10
        r == x % 10
    IN  IF r > 5 \/ (r = 5 /\ q % 2 = 1) THEN q + 1 ELSE q

(***************************************************************************)
(* decision_matrix.py                                                      *)
(***************************************************************************)

\* class DecisionAction
DecisionAction == {"allow", "deny", "review", "step_up"}

\* class RiskBand (by value)
RiskBand == {"low", "med", "high", "critical"}

DecisionMatrixEntry(et, band, seg, action, max_fpr, threshold) ==
    [event_type |-> et, risk_band |-> band, customer_segment |-> seg,
     action |-> action, max_fpr |-> max_fpr, confidence_threshold |-> threshold]

\* DecisionMatrixFactory.create_default_config
create_default_config ==
    [entries |-> <<
        DecisionMatrixEntry("login", "low", "new_user", "allow", 100, 8000),
        DecisionMatrixEntry("login", "low", "returning", "allow", 50, 9000),
        DecisionMatrixEntry("payment", "med", "new_user", "step_up", 80, 7000),
        DecisionMatrixEntry("payment", "med", "returning", "allow", 30, 8000),
        DecisionMatrixEntry("payment", "high", "new_user", "review", 50, 6000),
        DecisionMatrixEntry("payment", "high", "returning", "step_up", 20, 7000),
        DecisionMatrixEntry("payment", "critical", "new_user", "deny", 10, 5000),
        DecisionMatrixEntry("payment", "critical", "returning", "review", 10, 6000) >>,
     default_action |-> "review",
     default_max_fpr |-> 100]

\* DecisionMatrixEngine._generate_matrix_key
generate_matrix_key(event_type, risk_band, customer_segment) ==
    event_type \o ":" \o risk_band \o ":" \o customer_segment

\* dict[key] = entry
DictSet(d, key, entry) ==
    [k \in DOMAIN d \cup {key} |-> IF k = key THEN entry ELSE d[k]]

\* del dict[key]
DictDel(d, key) == [k \in DOMAIN d \ {key} |-> d[k]]

EmptyDict == [k \in {} |-> None]

\* DecisionMatrixEngine._build_matrix_lookup: a later entry of a key replaces an earlier one
RECURSIVE BuildFrom(_, _)
BuildFrom(entries, m) ==
    IF entries = << >> THEN m
    ELSE LET entry == Head(entries)
             key == generate_matrix_key(entry.event_type, entry.risk_band,
                                        entry.customer_segment)
         IN  BuildFrom(Tail(entries), DictSet(m, key, entry))

build_matrix_lookup(cfg) == BuildFrom(cfg.entries, EmptyDict)

\* DecisionMatrixEngine._get_risk_score_from_band
get_risk_score_from_band(risk_band) ==
    CASE risk_band = "low" -> 2000
      [] risk_band = "med" -> 5000
      [] risk_band = "high" -> 7000
      [] risk_band = "critical" -> 9000
      [] OTHER -> 5000

\* mutant: the fallback action is hard-wired instead of read from the configuration
create_default_decision_hardwired(cfg, event, risk_band, customer_segment, current_fpr) ==
    [action |-> "review",
     confidence |-> One - get_risk_score_from_band(risk_band),
     reasons |-> << <<"Using default decision for", event.event_type>> >>,
     rules_fired |-> << "default_decision" >>,
     metadata |-> [matrix_key |-> generate_matrix_key(event.event_type, risk_band,
                                                      customer_segment),
                   is_default |-> TRUE]]

\* DecisionMatrixEngine._create_default_decision
create_default_decision(cfg, event, risk_band, customer_segment, current_fpr) ==
    [action |-> cfg.default_action,
     confidence |-> One - get_risk_score_from_band(risk_band),
     reasons |-> << <<"Using default decision for", event.event_type>>,
                    <<"Risk band:", risk_band>>,
                    <<"Customer segment:", customer_segment>>,
                    <<"Max FPR:", Fmt3(cfg.default_max_fpr)>> >>,
     rules_fired |-> << "default_decision" >>,
     metadata |-> [matrix_key |-> generate_matrix_key(event.event_type, risk_band,
                                                      customer_segment),
                   is_default |-> TRUE]]

\* mutant: the escalation keeps the entry's own action
create_fpr_escalation_decision_keeps_action(matrix_entry, current_fpr) ==
    [action |-> matrix_entry.action,
     confidence |-> 8000,
     reasons |-> << <<"FPR", Fmt3(current_fpr), "exceeds threshold",
                      Fmt3(matrix_entry.max_fpr)>> >>,
     rules_fired |-> << "fpr_escalation" >>,
     metadata |-> [original_action |-> matrix_entry.action,
                   fpr_threshold |-> matrix_entry.max_fpr,
                   current_fpr |-> current_fpr,
                   is_escalation |-> TRUE]]

\* DecisionMatrixEngine._create_fpr_escalation_decision
create_fpr_escalation_decision(matrix_entry, current_fpr) ==
    [action |-> "review",
     confidence |-> 8000,
     reasons |-> << <<"FPR", Fmt3(current_fpr), "exceeds threshold",
                      Fmt3(matrix_entry.max_fpr)>>,
                    <<"Escalating", matrix_entry.action, "to review">> >>,
     rules_fired |-> << "fpr_escalation" >>,
     metadata |-> [original_action |-> matrix_entry.action,
                   fpr_threshold |-> matrix_entry.max_fpr,
                   current_fpr |-> current_fpr,
                   is_escalation |-> TRUE]]

\* DecisionMatrixEngine._create_normal_decision
create_normal_decision(matrix_entry, event, risk_band, customer_segment) ==
    [action |-> matrix_entry.action,
     confidence |-> One - get_risk_score_from_band(risk_band),
     reasons |-> << <<"Risk band:", risk_band>>,
                    <<"Customer segment:", customer_segment>>,
                    <<"Action:", matrix_entry.action>>,
                    <<"Max FPR:", Fmt3(matrix_entry.max_fpr)>>,
                    <<"Confidence threshold:", Fmt3(matrix_entry.confidence_threshold)>> >>,
     rules_fired |-> << "matrix_" \o matrix_entry.event_type \o "_" \o risk_band >>,
     metadata |-> [matrix_key |-> generate_matrix_key(event.event_type, risk_band,
                                                      customer_segment),
                   confidence_threshold |-> matrix_entry.confidence_threshold,
                   is_normal |-> TRUE]]

\* mutant: an FPR equal to the budget already escalates
fpr_exceeds_or_equal(current_fpr, matrix_entry) == current_fpr >= matrix_entry.max_fpr

\* the escalation test of decide: current_fpr > matrix_entry.max_fpr
fpr_exceeds(current_fpr, matrix_entry) == current_fpr > matrix_entry.max_fpr

\* DecisionMatrixEngine.decide
matrix_decide(cfg, m, event, risk_band, customer_segment, current_fpr) ==
    LET matrix_key == generate_matrix_key(event.event_type, risk_band, customer_segment)
        matrix_entry == m[matrix_key]
    IN  IF matrix_key \notin DOMAIN m
        THEN create_default_decision(cfg, event, risk_band, customer_segment, current_fpr)
        ELSE IF fpr_exceeds(current_fpr, matrix_entry)
        THEN create_fpr_escalation_decision(matrix_entry, current_fpr)
        ELSE create_normal_decision(matrix_entry, event, risk_band, customer_segment)

\* mutant: every entry is filed under the new_user segment
add_matrix_entry_under_new_user(m, entry) ==
    DictSet(m, generate_matrix_key(entry.event_type, entry.risk_band, "new_user"), entry)

\* DecisionMatrixEngine.add_matrix_entry
add_matrix_entry(m, entry) ==
    DictSet(m, generate_matrix_key(entry.event_type, entry.risk_band,
                                   entry.customer_segment), entry)

\* mutant: the removal leaves the entry in the lookup map
remove_matrix_entry_keeps(m, event_type, risk_band, customer_segment) == m

\* DecisionMatrixEngine.remove_matrix_entry
remove_matrix_entry(m, event_type, risk_band, customer_segment) ==
    LET key == generate_matrix_key(event_type, risk_band, customer_segment)
    IN  IF key \in DOMAIN m THEN DictDel(m, key) ELSE m

(***************************************************************************)
(* Inputs                                                                  *)
(***************************************************************************)

\* decision_core.py, class EventContext
\* (an amount of 0 also stands for amount = None: the code reads it as `amount or 0`)
EventContext(event_type, event_data, profile_id, device_fingerprint, amount) ==
    [event_type |-> event_type, event_data |-> event_data, profile_id |-> profile_id,
     device_fingerprint |-> device_fingerprint, ip_address |-> "192.168.1.1",
     amount |-> amount, created_at |-> "t0", project_id |-> "project789"]

EventTypes == {"payment", "login", "signup"}

Segments == {"new_user", "returning", "premium"}

\* 0.0, 0.001, 0.005, 0.01, 0.02
CurrentFprs == {0, 10, 50, 100, 200}

MatrixEvents == {EventContext(t, << >>, "user123", "device456", 100) : t \in EventTypes}

\* an entry list with a repeated key, and a non-default default action
CustomConfig ==
    [entries |-> <<
        DecisionMatrixEntry("payment", "low", "new_user", "allow", 100, 8000),
        DecisionMatrixEntry("login", "critical", "premium", "step_up", 0, 5000),
        DecisionMatrixEntry("payment", "low", "new_user", "deny", 10, 5000) >>,
     default_action |-> "allow",
     default_max_fpr |-> 50]

Configs == {create_default_config, CustomConfig}

\* entries added at runtime
AddPool ==
    {DecisionMatrixEntry("payment", "critical", "new_user", "allow", 50, 9000),
     DecisionMatrixEntry("signup", "high", "premium", "step_up", 100, 7000),
     DecisionMatrixEntry("login", "low", "returning", "deny", 0, 5000)}

\* keys removed at runtime
RemovePool ==
    {<<"payment", "critical", "new_user">>,
     <<"login", "low", "returning">>,
     <<"signup", "med", "premium">>}

(***************************************************************************)
(* replay_worker.py: the replay worker                                     *)
(*                                                                         *)
(* The worker runs on one asyncio event loop: a coroutine runs without     *)
(* interruption from one await that suspends to the next.  Queue.put on    *)
(* the unbounded queue and Queue.get on a queue that is not empty do not   *)
(* suspend; asyncio.sleep does.  The awaits of one event                   *)
(* (_process_event's sleep and the sleep after it) are one suspension      *)
(* here: between them the coroutine only counts in a local variable.       *)
(***************************************************************************)

\* at most this many enqueue_replay calls in one behaviour
MaxJobs == 2

\* replay_worker.py, class ReplayStatus
ReplayStatus == {"pending", "processing", "completed", "failed"}

\* replay_worker.py, class ReplayJob; a time that was stored is "now"
ReplayJob(id, event_ids, schema_version, reason, status, created_at, total_count) ==
    [id |-> id, event_ids |-> event_ids, schema_version |-> schema_version,
     reason |-> reason, status |-> status, created_at |-> created_at,
     started_at |-> None, completed_at |-> None, error_message |-> None,
     processed_count |-> 0, total_count |-> total_count]

\* ReplayWorker.__init__
worker_init == [jobs |-> EmptyDict, is_running |-> FALSE, processing_queue |-> << >>]

\* mutant: the job id is made of the time alone
new_job_id_by_time(now, jobs) == "replay_" \o now

\* enqueue_replay: f"replay_{datetime.now().strftime('%Y%m%d_%H%M%S')}_{len(self.jobs)}"
new_job_id(now, jobs) == "replay_" \o now \o "_" \o ToString(Cardinality(DOMAIN jobs))

\* ReplayWorker.enqueue_replay: the worker it leaves and the job id it returns
enqueue_replay(w, now, event_ids, schema_version, reason) ==
    LET job_id == new_job_id(now, w.jobs)
        job == ReplayJob(job_id, event_ids, schema_version, reason, "pending", now,
                         Len(event_ids))
    IN  [worker |-> [w EXCEPT !.jobs = DictSet(w.jobs, job_id, job),
                              !.processing_queue = Append(w.processing_queue, job_id)],
         result |-> job_id]

\* no coroutine in this place
NoTask == [pc |-> "none"]

\* the locals of a run_once call at its start.  pc is the await the coroutine is
\* suspended at; kind is the coroutine that made the call (a run_once request or a
\* start_worker loop); handled counts the events _process_event has processed for this
\* call and taken lists the jobs the call took from the queue.
RunOnceLocals(kind, limit) ==
    [pc |-> "run_once", kind |-> kind, limit |-> limit, no_jobs |-> FALSE,
     processed_jobs |-> 0, processed_events |-> 0, job |-> None,
     events_to_process |-> << >>, next |-> 1, processed_count |-> 0,
     failed_events |-> 0, handled |-> 0, taken |-> << >>]

\* test_replay_worker.py, mock_process_event: the event whose processing raises
raises(event_id) == event_id = "invalid_event"

\* event_ids[:max_events], for max_events > 0
Slice(event_ids, max_events) == SubSeq(event_ids, 1, Min(Len(event_ids), max_events))

\* run_once, lines 107-108: the job is taken up
start_job(w, job_id) ==
    [w EXCEPT !.jobs[job_id].status = "processing", !.jobs[job_id].started_at = "now"]

\* run_once, lines 114-118: the job ends completed
complete_job(w, job_id, events_processed) ==
    [w EXCEPT !.jobs[job_id].processed_count = events_processed,
              !.jobs[job_id].status = "completed",
              !.jobs[job_id].completed_at = "now"]

\* mutant: a job whose events failed is reported as completed
fail_job_completed(w, job_id, error_message) ==
    [w EXCEPT !.jobs[job_id].status = "completed",
              !.jobs[job_id].error_message = error_message,
              !.jobs[job_id].completed_at = "now"]

\* mutant: a job whose events failed is handed back for another try
fail_job_retry(w, job_id, error_message) ==
    [w EXCEPT !.jobs[job_id].status = "pending",
              !.jobs[job_id].error_message = error_message]

\* _process_job, lines 170-173, and run_once, lines 122-125: the job ends failed
fail_job(w, job_id, error_message) ==
    [w EXCEPT !.jobs[job_id].status = "failed",
              !.jobs[job_id].error_message = error_message,
              !.jobs[job_id].completed_at = "now"]

\* the coroutine when run_once has its result: a request returns it, the loop of
\* start_worker goes to sleep
finished(t) ==
    [t EXCEPT !.pc = IF t.kind = "start_worker" THEN "sleep" ELSE "return",
              !.job = None, !.events_to_process = << >>, !.next = 1,
              !.processed_count = 0, !.failed_events = 0]

\* run_once from the head of its while loop, and _process_job from the head of its for
\* loop, up to the next await that suspends or to the end of run_once
RECURSIVE run_loop(_, _)
RECURSIVE for_each(_, _)
run_loop(w, t) ==
    IF t.processed_events < t.limit /\ w.processing_queue # << >>
    THEN LET job_id == Head(w.processing_queue)
             got == [w EXCEPT !.processing_queue = Tail(w.processing_queue)]
         IN  IF w.jobs[job_id].status # "pending" THEN run_loop(got, t)
             ELSE for_each(start_job(got, job_id),
                           [t EXCEPT !.job = job_id,
                                     !.events_to_process =
                                        Slice(w.jobs[job_id].event_ids,
                                              t.limit - t.processed_events),
                                     !.next = 1, !.processed_count = 0,
                                     !.failed_events = 0,
                                     !.taken = Append(t.taken, job_id)])
    ELSE [worker |-> w, task |-> finished(t)]

for_each(w, t) ==
    IF t.next <= Len(t.events_to_process)
    THEN IF raises(t.events_to_process[t.next])
         THEN for_each(w, [t EXCEPT !.failed_events = t.failed_events + 1,
                                    !.next = t.next + 1])
         ELSE [worker |-> w, task |-> [t EXCEPT !.pc = "process_event"]]
    ELSE IF t.failed_events > 0
    THEN run_loop(fail_job(w, t.job, "Failed to process " \o ToString(t.failed_events)
                                        \o " out of "
                                        \o ToString(Len(t.events_to_process))
                                        \o " events"),
                  [t EXCEPT !.processed_jobs = t.processed_jobs + 1])
    ELSE run_loop(complete_job(w, t.job, t.processed_count),
                  [t EXCEPT !.processed_events = t.processed_events + t.processed_count,
                            !.processed_jobs = t.processed_jobs + 1])

\* _process_job after the awaits of one event: the event is counted, the loop goes on
resume_event(w, t) ==
    for_each(w, [t EXCEPT !.processed_count = t.processed_count + 1,
                          !.handled = t.handled + 1, !.next = t.next + 1])

\* ReplayWorker.run_once from its call to its first suspension or to its end
run_once(w, kind, limit) ==
    IF w.processing_queue = << >>
    THEN [worker |-> w, task |-> finished([RunOnceLocals(kind, limit) EXCEPT !.no_jobs = TRUE])]
    ELSE run_loop(w, RunOnceLocals(kind, limit))

\* what run_once returns
run_once_result(t) ==
    IF t.no_jobs THEN [message |-> "No jobs in queue", processed |-> 0]
    ELSE [message |-> <<"Processed", t.processed_jobs, "jobs,", t.processed_events,
                        "events">>,
          processed_jobs |-> t.processed_jobs, processed_events |-> t.processed_events]

\* start_worker: result = await self.run_once(limit=10)
WorkerLimit == 10

\* the requests to /v1/replay/enqueue
ReplayRequests ==
    {[event_ids |-> <<"evt_1", "evt_2">>, schema_version |-> 1, reason |-> "test_reason"],
     [event_ids |-> <<"evt_1", "invalid_event">>, schema_version |-> 2,
      reason |-> "test_error"]}

\* datetime.now() at the seconds of two enqueue calls
Clock == {"20260101_000000", "20260101_000001"}

\* the limit of a /v1/replay/run_once request
Limits == {1, 2}

\* the coroutines: run_once requests and start_worker calls in flight
ApiTasks == {"request"}

WorkerTasks == {"worker_1", "worker_2"}

tasks_init == [p \in ApiTasks \cup WorkerTasks |-> NoTask]

\* POST /v1/replay/enqueue: a call of ReplayWorker.enqueue_replay
EnqueueReplay ==
    /\ enqueues < MaxJobs
    /\ \E request \in ReplayRequests, now \in Clock :
        LET out == enqueue_replay(worker, now, request.event_ids, request.schema_version,
                                  request.reason)
        IN  /\ worker' = out.worker
            /\ call' = [op |-> "enqueue_replay", event_ids |-> request.event_ids,
                        schema_version |-> request.schema_version,
                        reason |-> request.reason, result |-> out.result]
    /\ enqueues' = enqueues + 1
    /\ UNCHANGED <<config, matrix, updates, gate, tasks>>

\* POST /v1/replay/run_once: a call of ReplayWorker.run_once, up to its first suspension
RunOnce(p) ==
    /\ tasks[p] = NoTask
    /\ \E limit \in Limits :
        LET out == run_once(worker, "run_once", limit)
        IN  /\ worker' = out.worker
            /\ tasks' = [tasks EXCEPT ![p] = out.task]
    /\ UNCHANGED <<config, matrix, updates, gate, call, enqueues>>

\* a coroutine suspended in _process_job is resumed and runs to its next suspension
ProcessEvent(p) ==
    /\ tasks[p].pc = "process_event"
    /\ LET out == resume_event(worker, tasks[p])
       IN  /\ worker' = out.worker
           /\ tasks' = [tasks EXCEPT ![p] = out.task]
    /\ UNCHANGED <<config, matrix, updates, gate, call, enqueues>>

\* the run_once request returns run_once_result of its locals to the caller
RunOnceReturn(p) ==
    /\ tasks[p].pc = "return"
    /\ tasks' = [tasks EXCEPT ![p] = NoTask]
    /\ UNCHANGED <<config, matrix, updates, gate, call, worker, enqueues>>

\* POST /v1/replay/worker/start: a call of start_worker.  While is_running it returns
\* at once; otherwise it sets is_running and enters its loop, up to the first suspension
StartWorker(p) ==
    /\ tasks[p] = NoTask
    /\ IF worker.is_running
       THEN UNCHANGED <<worker, tasks>>
       ELSE LET out == run_once([worker EXCEPT !.is_running = TRUE], "start_worker",
                                WorkerLimit)
            IN  /\ worker' = out.worker
                /\ tasks' = [tasks EXCEPT ![p] = out.task]
    /\ UNCHANGED <<config, matrix, updates, gate, call, enqueues>>

\* the loop of start_worker wakes from asyncio.sleep(1) and tests is_running: it makes
\* the next run_once call, or leaves the loop and its finally clears is_running
WorkerWake(p) ==
    /\ tasks[p].pc = "sleep"
    /\ IF worker.is_running
       THEN LET out == run_once(worker, "start_worker", WorkerLimit)
            IN  /\ worker' = out.worker
                /\ tasks' = [tasks EXCEPT ![p] = out.task]
       ELSE /\ worker' = [worker EXCEPT !.is_running = FALSE]
            /\ tasks' = [tasks EXCEPT ![p] = NoTask]
    /\ UNCHANGED <<config, matrix, updates, gate, call, enqueues>>

\* POST /v1/replay/worker/stop: a call of ReplayWorker.stop_worker
StopWorker ==
    /\ worker' = [worker EXCEPT !.is_running = FALSE]
    /\ UNCHANGED <<config, matrix, updates, gate, call, tasks, enqueues>>

(***************************************************************************)
(* The decision matrix engine as a state machine                           *)
(***************************************************************************)

\* DecisionGate.__init__: an empty decision_matrix and no update_matrix call in flight.
\* During a call, matrix_data is its argument, pending the entries its loop has not
\* yet stored, and before the decision_matrix it started from.
gate_init ==
    [decision_matrix |-> EmptyDict, matrix_data |-> << >>, pending |-> << >>,
     before |-> EmptyDict]

\* DecisionMatrixEngine.__init__
InitMatrix ==
    /\ config \in Configs
    /\ matrix = build_matrix_lookup(config)
    /\ updates = 0
    /\ call = NoCall
    /\ gate = gate_init
    /\ worker = worker_init
    /\ tasks = tasks_init
    /\ enqueues = 0

\* the caller is between two calls
Idle == call = NoCall

\* the caller takes the returned value and goes on
Return ==
    /\ call # NoCall
    /\ call' = NoCall
    /\ UNCHANGED <<config, matrix, updates, gate, worker, tasks, enqueues>>

\* mutant: decide files the default it used under the missing key
DecideCachingDefault ==
    /\ Idle
    /\ \E event \in MatrixEvents, risk_band \in RiskBand, customer_segment \in Segments,
       current_fpr \in CurrentFprs :
        LET key == generate_matrix_key(event.event_type, risk_band, customer_segment)
        IN  /\ call' = [op |-> "decide", event |-> event, risk_band |-> risk_band,
                        customer_segment |-> customer_segment, current_fpr |-> current_fpr,
                        result |-> matrix_decide(config, matrix, event, risk_band,
                                                 customer_segment, current_fpr)]
            /\ matrix' = IF key \in DOMAIN matrix THEN matrix
                         ELSE DictSet(matrix, key,
                                  DecisionMatrixEntry(event.event_type, risk_band,
                                      customer_segment, config.default_action,
                                      config.default_max_fpr, 8000))
            /\ UNCHANGED <<config, updates, gate, worker, tasks, enqueues>>

\* a call of DecisionMatrixEngine.decide
Decide ==
    /\ Idle
    /\ \E event \in MatrixEvents, risk_band \in RiskBand, customer_segment \in Segments,
       current_fpr \in CurrentFprs :
        /\ call' = [op |-> "decide", event |-> event, risk_band |-> risk_band,
                    customer_segment |-> customer_segment, current_fpr |-> current_fpr,
                    result |-> matrix_decide(config, matrix, event, risk_band,
                                             customer_segment, current_fpr)]
        /\ UNCHANGED <<config, matrix, updates, gate, worker, tasks, enqueues>>

\* the caller repeats the decide call it has just made, with the same arguments
DecideAgain ==
    /\ call.op = "decide"
    /\ call' = [op |-> "decide_again", event |-> call.event, risk_band |-> call.risk_band,
                customer_segment |-> call.customer_segment,
                current_fpr |-> call.current_fpr,
                first |-> call.result,
                result |-> matrix_decide(config, matrix, call.event, call.risk_band,
                                         call.customer_segment, call.current_fpr)]
    /\ UNCHANGED <<config, matrix, updates, gate, worker, tasks, enqueues>>

\* a call of DecisionMatrixEngine.add_matrix_entry
AddMatrixEntry ==
    /\ Idle
    /\ \E entry \in AddPool :
        /\ updates < MaxUpdates
        /\ matrix' = add_matrix_entry(matrix, entry)
        /\ updates' = updates + 1
        /\ call' = [op |-> "add_matrix_entry", entry |-> entry]
        /\ UNCHANGED <<config, gate, worker, tasks, enqueues>>

\* a call of DecisionMatrixEngine.remove_matrix_entry
RemoveMatrixEntry ==
    /\ Idle
    /\ \E k \in RemovePool :
        /\ updates < MaxUpdates
        /\ matrix' = remove_matrix_entry(matrix, k[1], k[2], k[3])
        /\ updates' = updates + 1
        /\ call' = [op |-> "remove_matrix_entry", event_type |-> k[1],
                    risk_band |-> k[2], customer_segment |-> k[3]]
        /\ UNCHANGED <<config, gate, worker, tasks, enqueues>>

NextMatrix == Decide \/ DecideAgain \/ AddMatrixEntry \/ RemoveMatrixEntry \/ Return

SpecMatrix == InitMatrix /\ [][NextMatrix]_vars

(***************************************************************************)
(* Properties of DecisionMatrixEngine.decide                               *)
(***************************************************************************)

\* metadata.get(k) is True
Flag(metadata, k) == k \in DOMAIN metadata /\ metadata[k] = TRUE

DecideOps == {"decide", "decide_again"}

\* the key a decide call looks up
CallKey == generate_matrix_key(call.event.event_type, call.risk_band, call.customer_segment)

\* the band scores as the specification lists them
SpecBandScore(band) ==
    CASE band = "low" -> 2000 [] band = "med" -> 5000
      [] band = "high" -> 7000 [] band = "critical" -> 9000

C3_NormalDecision ==
    call.op \in DecideOps =>
        LET md == call.result.metadata
            flags == {f \in {"is_default", "is_escalation", "is_normal"} : Flag(md, f)}
        IN  /\ Cardinality(flags) = 1
            /\ (CallKey \in DOMAIN matrix /\ call.current_fpr <= matrix[CallKey].max_fpr)
                => /\ call.result.action = matrix[CallKey].action
                   /\ call.result.confidence = One - SpecBandScore(call.risk_band)
                   /\ flags = {"is_normal"}
            /\ Flag(md, "is_default") <=> CallKey \notin DOMAIN matrix
            /\ Flag(md, "is_escalation") <=>
                   (CallKey \in DOMAIN matrix
                        /\ call.current_fpr > matrix[CallKey].max_fpr)

\* an FPR exactly at the entry's budget: the entry's action is returned
C3_Witness ==
    /\ call.op = "decide"
    /\ CallKey \in DOMAIN matrix
    /\ call.current_fpr = matrix[CallKey].max_fpr
    /\ matrix[CallKey].action = "deny"
    /\ call.result.action = "deny"
    /\ Flag(call.result.metadata, "is_normal")

(***************************************************************************)
(* decision_core.py: risk aggregation, risk band, make_decision            *)
(***************************************************************************)

\* at most this many rule results in one make_decision call
MaxResults == 3

\* a * b of two fixed-point numbers
Mul(a, b) == (a * b) \div One

\* decision_core.py, class RuleResult
RuleResult(fired, reason, risk_score, rule_name) ==
    [fired |-> fired, reason |-> reason, risk_score |-> risk_score, rule_name |-> rule_name]

\* [f(r) for r in results if r.fired], for f the identity
RECURSIVE FiredOf(_)
FiredOf(results) ==
    IF results = << >> THEN << >>
    ELSE IF Head(results).fired THEN <<Head(results)>> \o FiredOf(Tail(results))
    ELSE FiredOf(Tail(results))

\* max(r.risk_score for r in results), with the value for an empty sequence
RECURSIVE MaxRisk(_, _)
MaxRisk(results, default) ==
    IF results = << >> THEN default
    ELSE IF Tail(results) = << >> THEN Head(results).risk_score
    ELSE Max(Head(results).risk_score, MaxRisk(Tail(results), default))

\* mutant: several fired rules are not amplified
calculate_risk_score_plain_max(rule_results) == MaxRisk(FiredOf(rule_results), 0)

\* mutant: the amplified score is not clamped to 1.0
calculate_risk_score_unclamped(rule_results) ==
    LET fired_rules == FiredOf(rule_results)
        max_risk == MaxRisk(fired_rules, 0)
    IN  IF Len(fired_rules) > 1
        THEN Mul(max_risk, Min(12000, One + (Len(fired_rules) - 1) * 1000))
        ELSE max_risk

\* DecisionCore._calculate_risk_score
calculate_risk_score(rule_results) ==
    IF rule_results = << >> THEN 0
    ELSE LET max_risk == MaxRisk(FiredOf(rule_results), 0)
             fired_rules == FiredOf(rule_results)
         IN  IF Len(fired_rules) > 1
             THEN LET multiplier == Min(12000, One + (Len(fired_rules) - 1) * 1000)
                  IN  Min(One, Mul(max_risk, multiplier))
             ELSE max_risk

\* mutant: the band boundaries belong to the lower band
core_get_risk_band_closed(risk_score) ==
    IF risk_score <= 3000 THEN "low"
    ELSE IF risk_score <= 6000 THEN "med"
    ELSE IF risk_score <= 8000 THEN "high"
    ELSE "critical"

\* DecisionCore._get_risk_band
core_get_risk_band(risk_score) ==
    IF risk_score < 3000 THEN "low"
    ELSE IF risk_score < 6000 THEN "med"
    ELSE IF risk_score < 8000 THEN "high"
    ELSE "critical"

\* DecisionGate._get_risk_band
gate_get_risk_band(risk_score) ==
    IF risk_score < 3000 THEN "low"
    ELSE IF risk_score < 6000 THEN "med"
    ELSE IF risk_score < 8000 THEN "high"
    ELSE "critical"

\* [r.rule_name for r in results], [r.reason for r in results]
RECURSIVE FieldOf(_, _)
FieldOf(results, field) ==
    IF results = << >> THEN << >>
    ELSE <<Head(results)[field]>> \o FieldOf(Tail(results), field)

\* mutant: the reasons of all rules are reported, fired or not, in front of the matrix reasons
make_decision_all_reasons(cfg, m, rule_results, event, customer_segment, current_fpr) ==
    LET risk_score == calculate_risk_score(rule_results)
        risk_band == core_get_risk_band(risk_score)
        decision_result == matrix_decide(cfg, m, event, risk_band, customer_segment,
                                         current_fpr)
        fired_rules == FieldOf(FiredOf(rule_results), "rule_name")
        rule_reasons == FieldOf(rule_results, "reason")
        all_reasons == rule_reasons \o decision_result.reasons
    IN  [decision |-> decision_result.action,
         risk_score |-> risk_score,
         reasons |-> all_reasons,
         rules_fired |-> fired_rules,
         metadata |-> [evaluated_at |-> event.created_at,
                       event_type |-> event.event_type,
                       profile_id |-> event.profile_id,
                       risk_band |-> risk_band,
                       customer_segment |-> customer_segment] @@ decision_result.metadata]

\* DecisionCore.make_decision, on the engine (cfg, m) the core owns
make_decision(cfg, m, rule_results, event, customer_segment, current_fpr) ==
    LET risk_score == calculate_risk_score(rule_results)
        risk_band == core_get_risk_band(risk_score)
        decision_result == matrix_decide(cfg, m, event, risk_band, customer_segment,
                                         current_fpr)
        fired_rules == FieldOf(FiredOf(rule_results), "rule_name")
        rule_reasons == FieldOf(FiredOf(rule_results), "reason")
        all_reasons == decision_result.reasons \o rule_reasons
    IN  [decision |-> decision_result.action,
         risk_score |-> risk_score,
         reasons |-> all_reasons,
         rules_fired |-> fired_rules,
         metadata |-> [evaluated_at |-> event.created_at,
                       event_type |-> event.event_type,
                       profile_id |-> event.profile_id,
                       risk_band |-> risk_band,
                       customer_segment |-> customer_segment] @@ decision_result.metadata]

\* rule results handed to make_decision (those of tests/test_decision_core.py and more)
ResultPool ==
    {RuleResult(TRUE, <<"Low risk detected">>, 3000, "low_risk_rule"),
     RuleResult(TRUE, <<"Suspicious keyword detected:", "test">>, 6000, "suspicious_keywords"),
     RuleResult(TRUE, <<"Medium risk detected">>, 7000, "medium_risk_rule"),
     RuleResult(TRUE, <<"High risk detected">>, 9000, "high_risk_rule"),
     RuleResult(FALSE, <<"Rule OK">>, 0, "ok_rule"),
     RuleResult(FALSE, <<"Rule evaluation error:", "boom">>, 0, "broken_rule")}

\* all sequences over S of length at most n
SeqsUpTo(S, n) == UNION {[1..k -> S] : k \in 0..n}

CoreEvents ==
    {EventContext("payment", << >>, "user123", "device456", 100),
     EventContext("login", << >>, "user123", "device456", 0)}

CoreSegments == {"new_user", "returning"}

\* 0.001 and the default 0.01
CoreFprs == {10, 100}

\* scores handed to the band classifiers
BandScores ==
    {0, 1000, 2000, 2990, 2999, 3000, 3001, 4000, 5000, 5990, 5999, 6000, 6001, 7000,
     7990, 7999, 8000, 8001, 9000, 9999, 10000}

(***************************************************************************)
(* rule_engine.py                                                          *)
(***************************************************************************)

\* at most this many rules in one evaluate_rules call
MaxRules == 3

\* an exception raised instead of a value returned
Raised(exception) == [raised |-> exception]

IsRaised(x) == "raised" \in DOMAIN x

\* conditions.get(key, default)
Get(conditions, key, default) ==
    IF key \in DOMAIN conditions THEN conditions[key] ELSE default

\* a / b for integers a, b # 0, as a fixed-point number
Ratio(a, b) == (a * One) \div b

\* rule_engine.py, class RuleDefinition
RuleDefinition(name, rule_type, conditions, priority, enabled) ==
    [name |-> name, rule_type |-> rule_type, conditions |-> conditions,
     action |-> "review", priority |-> priority, enabled |-> enabled]

\* a member of decision_core.RuleType
RuleTypeOf(value) == [enum |-> "RuleType", value |-> value]

\* a member of another enumeration (an object with a .value that is no RuleType)
OtherEnum(value) == [enum |-> "other", value |-> value]

\* a plain string where a RuleType is expected (it has no .value)
PlainStr(value) == [enum |-> "str", value |-> value]

\* rule_engine.py, class RuleEvaluationContext
RuleEvaluationContext(event, profile, event_counts, device_usage_count, geo, score) ==
    [event |-> event, profile |-> profile, event_counts |-> event_counts,
     device_usage_count |-> device_usage_count, ip_geolocation |-> geo,
     user_behavior_score |-> score]

\* an optional object that is absent (None), or an empty dict: both are falsy
Absent == [k \in {} |-> None]

IsFalsy(x) == DOMAIN x = {}

\* rule.conditions = None: conditions.get raises AttributeError on it
NoConditions == [none |-> TRUE]

IsNone(x) == "none" \in DOMAIN x

\* RateLimitEvaluator._get_event_count_for_scope
get_event_count_for_scope(scope, context) ==
    IF scope = "ip" THEN Get(context.event_counts, "ip", 0)
    ELSE IF scope = "profile" /\ ~IsFalsy(context.profile)
    THEN Get(context.event_counts, "profile", 0)
    ELSE IF scope = "device" THEN Get(context.event_counts, "device", 0)
    ELSE 0

\* mutant: the ratio is also reported as the risk of a rule that did not fire
RateLimitEvaluator_risk_when_ok(rule, context) ==
    LET conditions == rule.conditions
        scope == Get(conditions, "scope", "ip")
        time_window == Get(conditions, "time_window_minutes", 60)
        max_events == Get(conditions, "max_events", 100)
        event_count == get_event_count_for_scope(scope, context)
    IN  IF IsNone(conditions) THEN Raised("AttributeError")
        ELSE IF scope \notin {"ip", "profile", "device"}
        THEN RuleResult(FALSE, <<"Invalid rate limit scope:", scope>>, 0, rule.name)
        ELSE IF max_events = 0 THEN Raised("ZeroDivisionError")
        ELSE IF event_count > max_events
        THEN RuleResult(TRUE, <<"Rate limit exceeded:", event_count, "events in",
                                time_window, "minutes">>,
                        Min(9000, Ratio(event_count, max_events)), rule.name)
        ELSE RuleResult(FALSE, <<"Rate limit OK:", event_count, "/", max_events, "events">>,
                        Min(9000, Ratio(event_count, max_events)), rule.name)

\* RateLimitEvaluator.evaluate
RateLimitEvaluator(rule, context) ==
    LET conditions == rule.conditions
        scope == Get(conditions, "scope", "ip")
        time_window == Get(conditions, "time_window_minutes", 60)
        max_events == Get(conditions, "max_events", 100)
        event_count == get_event_count_for_scope(scope, context)
    IN  IF IsNone(conditions) THEN Raised("AttributeError")
        ELSE IF scope \notin {"ip", "profile", "device"}
        THEN RuleResult(FALSE, <<"Invalid rate limit scope:", scope>>, 0, rule.name)
        ELSE IF event_count > max_events
        THEN IF max_events = 0 THEN Raised("ZeroDivisionError")
             ELSE RuleResult(TRUE, <<"Rate limit exceeded:", event_count, "events in",
                                     time_window, "minutes">>,
                             Min(9000, Ratio(event_count, max_events)), rule.name)
        ELSE RuleResult(FALSE, <<"Rate limit OK:", event_count, "/", max_events, "events">>,
                        0, rule.name)

\* VelocityEvaluator.evaluate
VelocityEvaluator(rule, context) ==
    LET conditions == rule.conditions
        scope == Get(conditions, "scope", "profile")
        time_window == Get(conditions, "time_window_minutes", 60)
        max_velocity == Get(conditions, "max_velocity", 10)
        velocity_count == Get(context.event_counts, "profile_velocity", 0)
    IN  IF IsNone(conditions) THEN Raised("AttributeError")
        ELSE IF scope # "profile" \/ IsFalsy(context.profile)
        THEN RuleResult(FALSE, <<"Velocity check requires profile scope">>, 0, rule.name)
        ELSE IF velocity_count > max_velocity
        THEN IF max_velocity = 0 THEN Raised("ZeroDivisionError")
             ELSE RuleResult(TRUE, <<"Velocity exceeded:", velocity_count, "events in",
                                     time_window, "minutes">>,
                             Min(8000, Ratio(velocity_count, max_velocity)), rule.name)
        ELSE RuleResult(FALSE, <<"Velocity OK:", velocity_count, "/", max_velocity,
                                 "events">>, 0, rule.name)

\* DeviceEvaluator.evaluate
DeviceEvaluator(rule, context) ==
    LET conditions == rule.conditions
        max_device_uses == Get(conditions, "max_device_uses", 5)
    IN  IF context.event.device_fingerprint \in {None, ""}
        THEN RuleResult(FALSE, <<"No device fingerprint available">>, 0, rule.name)
        ELSE IF IsNone(conditions) THEN Raised("AttributeError")
        ELSE IF Get(conditions, "check_device_reuse", FALSE)
                /\ context.device_usage_count > max_device_uses
        THEN RuleResult(TRUE, <<"Device overuse:", context.device_usage_count,
                                "events from same device">>,
                        Min(7000, Ratio(context.device_usage_count, 10)), rule.name)
        ELSE RuleResult(FALSE, <<"Device fingerprint OK">>, 0, rule.name)

\* str.lower() of one character
LowerChar(c) ==
    CASE c = "T" -> "t" [] c = "E" -> "e" [] c = "S" -> "s" [] c = "F" -> "f"
      [] c = "R" -> "r" [] c = "A" -> "a" [] c = "U" -> "u" [] c = "D" -> "d"
      [] OTHER -> c

\* str.lower(): a string is the sequence of its characters
Lower(str) == [i \in DOMAIN str |-> LowerChar(str[i])]

\* needle in hay, for strings
Contains(needle, hay) ==
    \E i \in 0..(Len(hay) - Len(needle)) : SubSeq(hay, i + 1, i + Len(needle)) = needle

\* isinstance(value, str), for the values of an event's data
IsStr(value) == value.type = "str"

StrValue(chars) == [type |-> "str", s |-> chars]

NumValue(n) == [type |-> "float", v |-> n]

\* the (item, keyword) pairs of CustomEvaluator's nested loop that match
CustomMatches(event_data, suspicious_keywords) ==
    {<<i, j>> \in (DOMAIN event_data) \X (DOMAIN suspicious_keywords) :
        /\ IsStr(event_data[i][2])
        /\ Contains(Lower(suspicious_keywords[j]), Lower(event_data[i][2].s))}

\* the first pair in the order of the nested loop
FirstMatch(matches) ==
    CHOOSE m \in matches :
        \A n \in matches : m[1] < n[1] \/ (m[1] = n[1] /\ m[2] <= n[2])

\* mutant: the keywords are compared with the values as they are written
CustomEvaluator_case_sensitive(rule, context) ==
    LET conditions == rule.conditions
        suspicious_keywords == Get(conditions, "suspicious_keywords", << >>)
        event_data == context.event.event_data
        matches == {<<i, j>> \in (DOMAIN event_data) \X (DOMAIN suspicious_keywords) :
                       /\ IsStr(event_data[i][2])
                       /\ Contains(suspicious_keywords[j], event_data[i][2].s)}
    IN  IF IsNone(conditions) THEN Raised("AttributeError")
        ELSE IF ~Get(conditions, "check_event_data", FALSE)
        THEN RuleResult(FALSE, <<"Custom rule conditions not met">>, 0, rule.name)
        ELSE IF suspicious_keywords = << >>
        THEN RuleResult(FALSE, <<"No suspicious keywords configured">>, 0, rule.name)
        ELSE IF matches # {}
        THEN RuleResult(TRUE, <<"Suspicious keyword detected:",
                                suspicious_keywords[FirstMatch(matches)[2]]>>,
                        6000, rule.name)
        ELSE RuleResult(FALSE, <<"Custom rule conditions not met">>, 0, rule.name)

\* CustomEvaluator.evaluate
CustomEvaluator(rule, context) ==
    LET conditions == rule.conditions
        suspicious_keywords == Get(conditions, "suspicious_keywords", << >>)
        matches == CustomMatches(context.event.event_data, suspicious_keywords)
    IN  IF IsNone(conditions) THEN Raised("AttributeError")
        ELSE IF ~Get(conditions, "check_event_data", FALSE)
        THEN RuleResult(FALSE, <<"Custom rule conditions not met">>, 0, rule.name)
        ELSE IF suspicious_keywords = << >>
        THEN RuleResult(FALSE, <<"No suspicious keywords configured">>, 0, rule.name)
        ELSE IF matches # {}
        THEN RuleResult(TRUE, <<"Suspicious keyword detected:",
                                suspicious_keywords[FirstMatch(matches)[2]]>>,
                        6000, rule.name)
        ELSE RuleResult(FALSE, <<"Custom rule conditions not met">>, 0, rule.name)

\* GeolocationEvaluator.evaluate
GeolocationEvaluator(rule, context) ==
    LET conditions == rule.conditions
        max_changes == Get(conditions, "max_location_changes", 3)
        location_changes == Get(context.ip_geolocation, "location_changes", 0)
    IN  IF IsFalsy(context.ip_geolocation)
        THEN RuleResult(FALSE, <<"No geolocation data available">>, 0, rule.name)
        ELSE IF IsNone(conditions) THEN Raised("AttributeError")
        ELSE IF Get(conditions, "enable_vpn_detection", FALSE)
                /\ Get(context.ip_geolocation, "is_vpn", FALSE)
        THEN RuleResult(TRUE, <<"VPN detected">>, 5000, rule.name)
        ELSE IF Get(conditions, "enable_location_consistency", FALSE)
                /\ location_changes > max_changes
        THEN RuleResult(TRUE, <<"Too many location changes:", location_changes>>,
                        Min(6000, Ratio(location_changes, 10)), rule.name)
        ELSE RuleResult(FALSE, <<"Geolocation checks passed">>, 0, rule.name)

\* BehaviorEvaluator.evaluate
BehaviorEvaluator(rule, context) ==
    LET conditions == rule.conditions
        behavior_threshold == Get(conditions, "behavior_threshold", 7000)
    IN  IF IsNone(conditions) THEN Raised("AttributeError")
        ELSE IF ~Get(conditions, "enable_behavioral_analysis", FALSE)
        THEN RuleResult(FALSE, <<"Behavioral analysis not enabled">>, 0, rule.name)
        ELSE IF context.user_behavior_score > behavior_threshold
        THEN RuleResult(TRUE, <<"Unusual behavior detected: score",
                                Fmt2(context.user_behavior_score)>>,
                        Min(8000, context.user_behavior_score), rule.name)
        ELSE RuleResult(FALSE, <<"Behavior normal: score",
                                 Fmt2(context.user_behavior_score)>>,
                        0, rule.name)

\* TableDrivenRuleEngine._evaluate_single_rule
evaluate_single_rule(rule, context) ==
    IF rule.rule_type.enum = "RuleType"
    THEN CASE rule.rule_type.value = "rate_limit" -> RateLimitEvaluator(rule, context)
           [] rule.rule_type.value = "velocity" -> VelocityEvaluator(rule, context)
           [] rule.rule_type.value = "device" -> DeviceEvaluator(rule, context)
           [] rule.rule_type.value = "custom" -> CustomEvaluator(rule, context)
    ELSE IF rule.rule_type.enum = "str" THEN Raised("AttributeError")
    ELSE IF rule.rule_type.value = "geolocation" THEN GeolocationEvaluator(rule, context)
    ELSE IF rule.rule_type.value = "behavior" THEN BehaviorEvaluator(rule, context)
    ELSE RuleResult(FALSE, <<"Unknown rule type:", rule.rule_type.value>>, 0, rule.name)

\* mutant: a rule is put in front of the rules of its own priority
InsertByPriority_before_equal(sorted, rule) ==
    LET before == {i \in DOMAIN sorted : sorted[i].priority > rule.priority}
        n == Cardinality(before)
    IN  SubSeq(sorted, 1, n) \o <<rule>> \o SubSeq(sorted, n + 1, Len(sorted))

\* one step of sorted(rules, key=priority, reverse=True): the sort is stable, so a rule
\* goes behind every rule already placed whose priority is not lower
InsertByPriority(sorted, rule) ==
    LET before == {i \in DOMAIN sorted : sorted[i].priority >= rule.priority}
        n == Cardinality(before)
    IN  SubSeq(sorted, 1, n) \o <<rule>> \o SubSeq(sorted, n + 1, Len(sorted))

\* sorted(rules, key=lambda r: r.priority, reverse=True)
RECURSIVE SortByPriority(_, _)
SortByPriority(rules, sorted) ==
    IF rules = << >> THEN sorted
    ELSE SortByPriority(Tail(rules), InsertByPriority(sorted, Head(rules)))

\* mutant: a rule whose evaluation failed counts as a fired rule of full risk
rule_error_result_fail_closed(rule, outcome) ==
    RuleResult(TRUE, <<"Rule evaluation error:", outcome.raised>>, One, rule.name)

\* the except branch of evaluate_rules
rule_error_result(rule, outcome) ==
    RuleResult(FALSE, <<"Rule evaluation error:", outcome.raised>>, 0, rule.name)

\* the body of the loop of evaluate_rules, for one enabled rule
evaluate_guarded(rule, context) ==
    LET outcome == evaluate_single_rule(rule, context)
    IN  IF IsRaised(outcome) THEN rule_error_result(rule, outcome) ELSE outcome

\* the loop of evaluate_rules over the sorted rules
RECURSIVE EvaluateEach(_, _)
EvaluateEach(sorted_rules, context) ==
    IF sorted_rules = << >> THEN << >>
    ELSE IF ~Head(sorted_rules).enabled THEN EvaluateEach(Tail(sorted_rules), context)
    ELSE <<evaluate_guarded(Head(sorted_rules), context)>>
             \o EvaluateEach(Tail(sorted_rules), context)

\* TableDrivenRuleEngine.evaluate_rules
evaluate_rules(rules, context) == EvaluateEach(SortByPriority(rules, << >>), context)

(***************************************************************************)
(* strategy_registry.py                                                    *)
(***************************************************************************)

\* at most this many member rules in one composition
MaxMembers == 3

\* a ComposableRule instance: VelocityRule, DeviceFingerprintRule or AmountRule
ComposableRule(name, strategy, limit, enabled) ==
    [name |-> name, strategy |-> strategy, limit |-> limit, priority |-> 0,
     enabled |-> enabled]

\* strategy_registry.py, class RuleEvaluationContext
StrategyContext(event, profile, metadata) ==
    [event |-> event, profile |-> profile, metadata |-> metadata]

\* VelocityRule.evaluate
VelocityRule(rule, context) ==
    LET event_count == Get(context.metadata, "event_count", 0)
    IN  IF event_count > rule.limit
        THEN IF rule.limit = 0 THEN Raised("ZeroDivisionError")
             ELSE RuleResult(TRUE, <<"Velocity exceeded:", event_count>>,
                             Min(9000, Ratio(event_count, rule.limit)), rule.name)
        ELSE RuleResult(FALSE, <<"Velocity OK:", event_count, "/", rule.limit>>, 0,
                        rule.name)

\* DeviceFingerprintRule.evaluate
DeviceFingerprintRule(rule, context) ==
    LET device_usage_count == Get(context.metadata, "device_usage_count", 0)
    IN  IF context.event.device_fingerprint \in {None, ""}
        THEN RuleResult(FALSE, <<"No device fingerprint available">>, 0, rule.name)
        ELSE IF device_usage_count > rule.limit
        THEN RuleResult(TRUE, <<"Device overuse:", device_usage_count>>,
                        Min(7000, Ratio(device_usage_count, 10)), rule.name)
        ELSE RuleResult(FALSE, <<"Device fingerprint OK">>, 0, rule.name)

\* AmountRule.evaluate
AmountRule(rule, context) ==
    LET amount == context.event.amount
    IN  IF amount > rule.limit
        THEN IF rule.limit = 0 THEN Raised("ZeroDivisionError")
             ELSE RuleResult(TRUE, <<"Amount exceeds limit:", amount, ">", rule.limit>>,
                             Min(8000, Ratio(amount, rule.limit)), rule.name)
        ELSE RuleResult(FALSE, <<"Amount OK:", amount, "<=", rule.limit>>, 0, rule.name)

\* rule.evaluate(context), dispatched on the rule's class
composable_evaluate(rule, context) ==
    CASE rule.strategy = "velocity" -> VelocityRule(rule, context)
      [] rule.strategy = "device_fingerprint" -> DeviceFingerprintRule(rule, context)
      [] rule.strategy = "amount" -> AmountRule(rule, context)

\* the loop of RuleComposition.evaluate with its except branch
RECURSIVE MemberResults(_, _)
MemberResults(rules, context) ==
    IF rules = << >> THEN << >>
    ELSE IF ~Head(rules).enabled THEN MemberResults(Tail(rules), context)
    ELSE LET outcome == composable_evaluate(Head(rules), context)
         IN  <<IF IsRaised(outcome) THEN rule_error_result(Head(rules), outcome)
               ELSE outcome>> \o MemberResults(Tail(rules), context)

\* sum(r.risk_score for r in results)
RECURSIVE SumRisk(_)
SumRisk(results) ==
    IF results = << >> THEN 0 ELSE Head(results).risk_score + SumRisk(Tail(results))

\* mutant: members that did not fire are ignored by AND
evaluate_and_ignores_silent(results, name) ==
    LET fired_rules == FiredOf(results)
        rule_names == FieldOf(fired_rules, "rule_name")
    IN  IF Len(fired_rules) > 0
        THEN RuleResult(TRUE, <<"All rules fired:", rule_names>>,
                        MaxRisk(fired_rules, 0), <<"AND", rule_names>>)
        ELSE RuleResult(FALSE, <<"Not all rules fired">>, 0, name)

\* RuleComposition._evaluate_and
evaluate_and(results, name) ==
    LET fired_rules == FiredOf(results)
        rule_names == FieldOf(fired_rules, "rule_name")
    IN  IF Len(fired_rules) = Len(results) /\ Len(results) > 0
        THEN RuleResult(TRUE, <<"All rules fired:", rule_names>>,
                        MaxRisk(fired_rules, 0), <<"AND", rule_names>>)
        ELSE RuleResult(FALSE, <<"Not all rules fired">>, 0, name)

\* RuleComposition._evaluate_or
evaluate_or(results, name) ==
    LET fired_rules == FiredOf(results)
        rule_names == FieldOf(fired_rules, "rule_name")
    IN  IF fired_rules # << >>
        THEN RuleResult(TRUE, <<"Any rule fired:", rule_names>>,
                        MaxRisk(fired_rules, 0), <<"OR", rule_names>>)
        ELSE RuleResult(FALSE, <<"No rules fired">>, 0, name)

\* mutant: half of the members is enough
evaluate_majority_at_least_half(results, name) ==
    LET fired_rules == FiredOf(results)
        rule_names == FieldOf(fired_rules, "rule_name")
    IN  IF 2 * Len(fired_rules) >= Len(results) /\ Len(fired_rules) > 0
        THEN RuleResult(TRUE, <<"Majority rules fired:", rule_names>>,
                        SumRisk(fired_rules) \div Len(fired_rules),
                        <<"MAJORITY", rule_names>>)
        ELSE RuleResult(FALSE, <<"Majority of rules did not fire">>, 0, name)

\* RuleComposition._evaluate_majority (len(fired) > len(results) / 2)
evaluate_majority(results, name) ==
    LET fired_rules == FiredOf(results)
        rule_names == FieldOf(fired_rules, "rule_name")
    IN  IF 2 * Len(fired_rules) > Len(results)
        THEN RuleResult(TRUE, <<"Majority rules fired:", rule_names>>,
                        SumRisk(fired_rules) \div Len(fired_rules),
                        <<"MAJORITY", rule_names>>)
        ELSE RuleResult(FALSE, <<"Majority of rules did not fire">>, 0, name)

\* RuleComposition.evaluate
composition_evaluate(rules, operator, context) ==
    LET results == MemberResults(rules, context)
        name == <<"Composition", operator>>
    IN  CASE operator = "AND" -> evaluate_and(results, name)
          [] operator = "OR" -> evaluate_or(results, name)
          [] operator = "MAJORITY" -> evaluate_majority(results, name)
          [] OTHER -> Raised("ValueError")

(***************************************************************************)
(* decision_gate.py                                                        *)
(***************************************************************************)

\* DecisionGate._get_matrix_key
gate_get_matrix_key(event_type, risk_band, customer_segment) ==
    event_type \o ":" \o risk_band \o ":" \o customer_segment

\* DecisionGate._get_default_decision
gate_get_default_decision(event_type, risk_band, customer_segment) ==
    CASE risk_band = "low" -> [action |-> "allow", max_fpr |-> 100]
      [] risk_band = "med" -> [action |-> "step_up", max_fpr |-> 80]
      [] risk_band = "high" -> [action |-> "review", max_fpr |-> 50]
      [] risk_band = "critical" -> [action |-> "deny", max_fpr |-> 20]
      [] OTHER -> [action |-> "review", max_fpr |-> 100]

\* decision_gate.py, class DecisionContext
DecisionContext(event_type, risk_score, customer_segment, latest_fpr) ==
    [event_type |-> event_type, risk_score |-> risk_score,
     customer_segment |-> customer_segment, latest_fpr |-> latest_fpr]

\* DecisionGate.decide; matrix_map = None is the empty map (both are falsy)
gate_decide(context, matrix_map) ==
    LET risk_band == gate_get_risk_band(context.risk_score)
        matrix_key == gate_get_matrix_key(context.event_type, risk_band,
                                          context.customer_segment)
        matrix_entry ==
            IF ~IsFalsy(matrix_map) /\ matrix_key \in DOMAIN matrix_map
            THEN matrix_map[matrix_key]
            ELSE gate_get_default_decision(context.event_type, risk_band,
                                           context.customer_segment)
        action == Get(matrix_entry, "action", "review")
        max_fpr == Get(matrix_entry, "max_fpr", 100)
    IN  IF action \notin DecisionAction
        THEN [action |-> "review", confidence |-> 5000,
              reasons |-> << <<"Error in decision logic:", "ValueError", action>> >>]
        ELSE IF context.latest_fpr > max_fpr
        THEN [action |-> "review", confidence |-> 8000,
              reasons |-> << <<"FPR", Fmt3(context.latest_fpr), "exceeds threshold",
                               Fmt3(max_fpr)>>,
                             <<"Escalating", "review", "to review">> >>]
        ELSE [action |-> action, confidence |-> One - context.risk_score,
              reasons |-> << <<"Risk band:", risk_band>>,
                             <<"Customer segment:", context.customer_segment>>,
                             <<"Action:", action>>,
                             <<"Max FPR:", Fmt3(max_fpr)>> >>]

(***************************************************************************)
(* Inputs of the rule engine, the compositions and the gate                *)
(***************************************************************************)

\* decision_core.py, class ProfileContext
ProfileContext == [id |-> "user123", created_at |-> "t0", last_activity |-> "t0"]

\* "a Test tx" and "FRAUD"
TestText == <<"a", " ", "T", "e", "s", "t", " ", "t", "x">>

FraudText == <<"F", "R", "A", "U", "D">>

\* a busy payment with a profile; an anonymous login without any counter; a payment
\* whose counters sit exactly on the limits of the rules below
RuleContexts ==
    {RuleEvaluationContext(
        EventContext("payment", << <<"description", StrValue(TestText)>>,
                                   <<"amount", NumValue(100)>> >>,
                     "user123", "device456", 100),
        ProfileContext,
        [ip |-> 6, profile |-> 3, device |-> 1, profile_velocity |-> 4],
        3, [is_vpn |-> TRUE, location_changes |-> 4], 9000),
     RuleEvaluationContext(
        EventContext("login", << >>, None, None, 0),
        Absent, Absent, 0, Absent, 0),
     RuleEvaluationContext(
        EventContext("payment", << <<"code", NumValue(7)>>,
                                   <<"note", StrValue(FraudText)>> >>,
                     "user123", "device456", 50),
        ProfileContext,
        [ip |-> 5, profile |-> 2, device |-> 0, profile_velocity |-> 3],
        2, [is_vpn |-> FALSE, location_changes |-> 3], 7000)}

\* custom rules handed to _evaluate_single_rule alone: switched off, without keywords,
\* with keywords written in capitals, with a keyword no value holds
CustomRulePool ==
    {RuleDefinition("keywords_off", RuleTypeOf("custom"),
                    [check_event_data |-> FALSE,
                     suspicious_keywords |-> << <<"t", "e", "s", "t">> >>], 0, TRUE),
     RuleDefinition("keywords_unset", RuleTypeOf("custom"),
                    [suspicious_keywords |-> << <<"t", "e", "s", "t">> >>], 0, TRUE),
     RuleDefinition("keywords_none", RuleTypeOf("custom"),
                    [check_event_data |-> TRUE], 0, TRUE),
     RuleDefinition("keywords_empty", RuleTypeOf("custom"),
                    [check_event_data |-> TRUE, suspicious_keywords |-> << >>], 0, TRUE),
     RuleDefinition("keywords_capitals", RuleTypeOf("custom"),
                    [check_event_data |-> TRUE,
                     suspicious_keywords |-> << <<"S", "C", "A", "M">>,
                                                <<"T", "E", "S", "T">>,
                                                <<"R", "a", "U">> >>], 0, TRUE),
     RuleDefinition("keywords_other", RuleTypeOf("custom"),
                    [check_event_data |-> TRUE,
                     suspicious_keywords |-> << <<"s", "c", "a", "m">>,
                                                <<"t", "e", "s", "t", "s">> >>], 0, TRUE)}

\* the rules handed to evaluate_rules
RulePool ==
    {RuleDefinition("rate_ip", RuleTypeOf("rate_limit"),
                    [scope |-> "ip", max_events |-> 5, time_window_minutes |-> 5], 10, TRUE),
     RuleDefinition("rate_profile", RuleTypeOf("rate_limit"),
                    [scope |-> "profile", max_events |-> 2], 10, TRUE),
     RuleDefinition("rate_zero", RuleTypeOf("rate_limit"), [max_events |-> 0], 5, TRUE),
     RuleDefinition("rate_negative", RuleTypeOf("rate_limit"), [max_events |-> -1], 5, TRUE),
     RuleDefinition("rate_session", RuleTypeOf("rate_limit"), [scope |-> "session"], 0, TRUE),
     RuleDefinition("velocity", RuleTypeOf("velocity"), [max_velocity |-> 3], 7, TRUE),
     RuleDefinition("device", RuleTypeOf("device"),
                    [check_device_reuse |-> TRUE, max_device_uses |-> 2], 5, TRUE),
     RuleDefinition("keywords", RuleTypeOf("custom"),
                    [check_event_data |-> TRUE,
                     suspicious_keywords |-> << <<"t", "e", "s", "t">>,
                                                <<"f", "r", "a", "u", "d">> >>], 0, TRUE),
     RuleDefinition("geo", OtherEnum("geolocation"),
                    [enable_vpn_detection |-> TRUE, enable_location_consistency |-> TRUE],
                    3, TRUE),
     RuleDefinition("behavior", OtherEnum("behavior"),
                    [enable_behavioral_analysis |-> TRUE], 3, TRUE),
     RuleDefinition("graph", OtherEnum("graph"), Absent, 1, TRUE),
     RuleDefinition("geo_str", PlainStr("geolocation"), Absent, 7, TRUE),
     RuleDefinition("velocity_null", RuleTypeOf("velocity"), NoConditions, 7, TRUE),
     RuleDefinition("rate_off", RuleTypeOf("rate_limit"),
                    [scope |-> "ip", max_events |-> 5], 20, FALSE)}

\* the member rules of compositions
MemberPool ==
    {ComposableRule("velocity_5", "velocity", 5, TRUE),
     ComposableRule("velocity_zero", "velocity", 0, TRUE),
     ComposableRule("velocity_negative", "velocity", -2, TRUE),
     ComposableRule("device_2", "device_fingerprint", 2, TRUE),
     ComposableRule("amount_80", "amount", 80, TRUE),
     ComposableRule("amount_off", "amount", 10, FALSE)}

Operators == {"AND", "OR", "MAJORITY", "XOR"}

StrategyContexts ==
    {StrategyContext(EventContext("payment", << >>, "user123", "device456", 100),
                     ProfileContext, [event_count |-> 6, device_usage_count |-> 3]),
     StrategyContext(EventContext("login", << >>, None, None, 0), Absent, Absent),
     StrategyContext(EventContext("payment", << >>, "user123", "device456", 60),
                     ProfileContext, [event_count |-> 5, device_usage_count |-> 7])}

\* the contexts of tests/test_decision_gate.py and more
\* mutant: a gate that has stored entries consults them when the caller hands in no map
gate_decide_on_stored(decision_matrix, context, matrix_map) ==
    gate_decide(context, IF IsFalsy(matrix_map) THEN decision_matrix ELSE matrix_map)

\* DecisionGate.decide as a method of a gate whose self.decision_matrix is given: the
\* method reads matrix_map and _get_default_decision, never self.decision_matrix
gate_decide_on(decision_matrix, context, matrix_map) == gate_decide(context, matrix_map)

GateContexts ==
    {DecisionContext(event_type, risk_score, customer_segment, latest_fpr) :
        event_type \in {"login", "payment", ""},
        risk_score \in {-10000, 0, 2000, 5000, 7000, 9000, 10000},
        customer_segment \in {"returning", "new_user", ""},
        latest_fpr \in {-10000, 10, 50, 100, 200}}

\* matrix_map arguments: none, one with an entry of the low login band, one whose entry
\* names no Action
MatrixMaps ==
    {Absent,
     [k \in {"login:low:returning"} |-> [action |-> "deny", max_fpr |-> 50]],
     [k \in {"payment:high:new_user"} |-> [action |-> "block", max_fpr |-> 50]]}

(***************************************************************************)
(* Updates of the matrices while they are read                             *)
(***************************************************************************)

\* decision_gate.py, class Action
GateActions == {"allow", "deny", "review", "step_up"}

\* the body of the loop of DecisionGate.update_matrix, for one entry of matrix_data:
\* Action(entry['action']) raises ValueError on a value that is no member
gate_update_entry(m, entry) ==
    IF entry.action \notin GateActions THEN Raised("ValueError")
    ELSE DictSet(m,
                 gate_get_matrix_key(entry.event_type, entry.risk_band,
                                     entry.customer_segment),
                 [event_type |-> entry.event_type, risk_band |-> entry.risk_band,
                  customer_segment |-> entry.customer_segment, action |-> entry.action,
                  max_fpr |-> entry.max_fpr, notes |-> Get(entry, "notes", "")])

\* DecisionGate.update_matrix run to its end without interruption: the decision_matrix
\* it leaves (an entry that raises ends the loop)
RECURSIVE gate_update_matrix(_, _)
gate_update_matrix(m, matrix_data) ==
    IF matrix_data = << >> THEN m
    ELSE IF IsRaised(gate_update_entry(m, Head(matrix_data))) THEN m
    ELSE gate_update_matrix(gate_update_entry(m, Head(matrix_data)), Tail(matrix_data))

\* DecisionMatrixEngine.get_matrix_entries (the entries as a set: the order of the
\* list is not modelled)
get_matrix_entries(m) == {m[k] : k \in DOMAIN m}

\* one call of a reload of the engine's matrix
reload_step(m, step) ==
    IF step.op = "add" THEN add_matrix_entry(m, step.entry)
    ELSE remove_matrix_entry(m, step.key[1], step.key[2], step.key[3])

\* the matrix after all calls of a reload
RECURSIVE reload(_, _)
reload(m, plan) ==
    IF plan = << >> THEN m ELSE reload(reload_step(m, Head(plan)), Tail(plan))

\* a reload of the default matrix: one entry removed, one added, one replaced
ReloadPlan ==
    << [op |-> "remove", key |-> <<"login", "low", "returning">>],
       [op |-> "add",
        entry |-> DecisionMatrixEntry("payment", "low", "new_user", "allow", 100, 8000)],
       [op |-> "add",
        entry |-> DecisionMatrixEntry("payment", "critical", "new_user", "review", 10,
                                      9000)] >>

\* arguments of update_matrix: two entries; one entry that names no Action
GateMatrixData ==
    { << [event_type |-> "login", risk_band |-> "low", customer_segment |-> "returning",
          action |-> "allow", max_fpr |-> 50],
         [event_type |-> "payment", risk_band |-> "high", customer_segment |-> "new_user",
          action |-> "review", max_fpr |-> 50, notes |-> "manual"] >>,
      << [event_type |-> "payment", risk_band |-> "med", customer_segment |-> "new_user",
          action |-> "block", max_fpr |-> 80] >> }

(***************************************************************************)
(* decision_core.py: rule evaluation of DecisionCore; fraud_engine.py      *)
(***************************************************************************)

\* the values of decision_core.RuleType and of decision_core.RuleAction
RuleTypeValues == {"rate_limit", "velocity", "device", "custom"}

RuleActionValues == {"allow", "deny", "review"}

\* the try block of the conversion loop of DecisionCore.evaluate_rules, for one rule dict:
\* RuleType(...) and RuleAction(...) raise ValueError on a value that is no member
core_rule_definition(rule) ==
    IF Get(rule, "rule_type", "custom") \notin RuleTypeValues THEN Raised("ValueError")
    ELSE IF Get(rule, "action", "review") \notin RuleActionValues THEN Raised("ValueError")
    ELSE [RuleDefinition(Get(rule, "name", "unnamed"),
                         RuleTypeOf(Get(rule, "rule_type", "custom")),
                         Get(rule, "conditions", Absent),
                         Get(rule, "priority", 0),
                         Get(rule, "enabled", TRUE))
            EXCEPT !.action = Get(rule, "action", "review")]

\* the conversion loop of DecisionCore.evaluate_rules: a rule whose conversion raises is
\* logged and left out (continue)
RECURSIVE core_rule_definitions(_)
core_rule_definitions(rules) ==
    IF rules = << >> THEN << >>
    ELSE IF IsRaised(core_rule_definition(Head(rules)))
    THEN core_rule_definitions(Tail(rules))
    ELSE <<core_rule_definition(Head(rules))>> \o core_rule_definitions(Tail(rules))

\* DecisionCore.evaluate_rules
core_evaluate_rules(rules, event, profile) ==
    LET rule_definitions == core_rule_definitions(rules)
        evaluation_context == RuleEvaluationContext(event, profile, Absent, 0, Absent, 0)
    IN  evaluate_rules(rule_definitions, evaluation_context)

\* DecisionCore._evaluate_rate_limit_rule
core_evaluate_rate_limit_rule(rule_name, conditions, event, profile) ==
    LET time_window == Get(conditions, "time_window_minutes", 60)
        max_events == Get(conditions, "max_events", 100)
        scope == Get(conditions, "scope", "ip")
    IN  IF IsNone(conditions) THEN Raised("AttributeError")
        ELSE IF scope = "ip" /\ event.ip_address \in {None, ""}
        THEN RuleResult(FALSE, <<"No IP address for rate limiting">>, 0, rule_name)
        ELSE IF scope = "profile" /\ IsFalsy(profile)
        THEN RuleResult(FALSE, <<"No profile for rate limiting">>, 0, rule_name)
        ELSE RuleResult(FALSE, <<"Rate limit check needed for", scope, "in", time_window,
                                 "min (max:", max_events, ")">>, 0, rule_name)

\* DecisionCore._evaluate_velocity_rule
core_evaluate_velocity_rule(rule_name, conditions, event, profile) ==
    LET time_window == Get(conditions, "time_window_minutes", 60)
        max_velocity == Get(conditions, "max_velocity", 10)
        scope == Get(conditions, "scope", "profile")
    IN  IF IsNone(conditions) THEN Raised("AttributeError")
        ELSE IF scope = "profile" /\ IsFalsy(profile)
        THEN RuleResult(FALSE, <<"No profile for velocity check">>, 0, rule_name)
        ELSE RuleResult(FALSE, <<"Velocity check needed for", scope, "in", time_window,
                                 "min (max:", max_velocity, ")">>, 0, rule_name)

\* DecisionCore._evaluate_device_rule
core_evaluate_device_rule(rule_name, conditions, event, profile) ==
    IF event.device_fingerprint \in {None, ""}
    THEN RuleResult(FALSE, <<"No device fingerprint available">>, 0, rule_name)
    ELSE IF IsNone(conditions) THEN Raised("AttributeError")
    ELSE IF Get(conditions, "check_device_reuse", FALSE)
    THEN RuleResult(FALSE, <<"Device reuse check needed (max:",
                             Get(conditions, "max_device_uses", 5), ")">>, 0, rule_name)
    ELSE RuleResult(FALSE, <<"Device fingerprint OK">>, 0, rule_name)

\* DecisionCore._evaluate_custom_rule
core_evaluate_custom_rule(rule_name, conditions, event, profile) ==
    LET suspicious_keywords == Get(conditions, "suspicious_keywords", << >>)
        matches == CustomMatches(event.event_data, suspicious_keywords)
    IN  IF IsNone(conditions) THEN Raised("AttributeError")
        ELSE IF ~Get(conditions, "check_event_data", FALSE)
        THEN RuleResult(FALSE, <<"Custom rule conditions not met">>, 0, rule_name)
        ELSE IF suspicious_keywords = << >>
        THEN RuleResult(FALSE, <<"No suspicious keywords configured">>, 0, rule_name)
        ELSE IF matches # {}
        THEN RuleResult(TRUE, <<"Suspicious keyword detected:",
                                suspicious_keywords[FirstMatch(matches)[2]]>>,
                        6000, rule_name)
        ELSE RuleResult(FALSE, <<"Custom rule conditions not met">>, 0, rule_name)

\* DecisionCore._evaluate_single_rule: RuleType(...) raises ValueError on a value that is
\* no member, so the final else branch is never taken
core_evaluate_single_rule(rule, event, profile) ==
    LET rule_type == Get(rule, "rule_type", "custom")
        conditions == Get(rule, "conditions", Absent)
        rule_name == Get(rule, "name", "unnamed")
    IN  IF rule_type \notin RuleTypeValues THEN Raised("ValueError")
        ELSE CASE rule_type = "rate_limit" ->
                    core_evaluate_rate_limit_rule(rule_name, conditions, event, profile)
               [] rule_type = "velocity" ->
                    core_evaluate_velocity_rule(rule_name, conditions, event, profile)
               [] rule_type = "device" ->
                    core_evaluate_device_rule(rule_name, conditions, event, profile)
               [] rule_type = "custom" ->
                    core_evaluate_custom_rule(rule_name, conditions, event, profile)

\* FraudEngine.evaluate_event, from the rules, event and profile the data service gave:
\* evaluate_rules, then make_decision with its default segment and FPR
evaluate_event(cfg, m, rules, event_context, profile_context) ==
    LET rule_results == core_evaluate_rules(rules, event_context, profile_context)
        decision_result == make_decision(cfg, m, rule_results, event_context,
                                         "new_user", 100)
    IN  [decision |-> decision_result.decision,
         risk_score |-> decision_result.risk_score,
         reasons |-> decision_result.reasons,
         rules_fired |-> decision_result.rules_fired,
         metadata |-> decision_result.metadata]

\* the rule dicts the data service hands to DecisionCore
RuleDictPool ==
    {[name |-> "suspicious_keywords", rule_type |-> "custom",
      conditions |-> [check_event_data |-> TRUE,
                      suspicious_keywords |-> << <<"t", "e", "s", "t">> >>],
      action |-> "review", priority |-> 0],
     [name |-> "rate_null", rule_type |-> "rate_limit", conditions |-> NoConditions,
      action |-> "deny", priority |-> 5],
     [name |-> "velocity", rule_type |-> "velocity", conditions |-> [max_velocity |-> 3],
      action |-> "review", priority |-> 5],
     [name |-> "device", rule_type |-> "device",
      conditions |-> [check_device_reuse |-> TRUE], priority |-> 9, enabled |-> TRUE],
     [name |-> "geo", rule_type |-> "geolocation",
      conditions |-> [enable_vpn_detection |-> TRUE], action |-> "review", priority |-> 3],
     [name |-> "rate_step_up", rule_type |-> "rate_limit", conditions |-> Absent,
      action |-> "step_up", priority |-> 3],
     [rule_type |-> "rate_limit", conditions |-> [scope |-> "profile"], enabled |-> FALSE]}

\* a payment whose description reads "a Test tx"; an anonymous login
\* custom rule dicts handed to DecisionCore._evaluate_single_rule alone
CustomDictPool ==
    {[name |-> "keywords_off", rule_type |-> "custom",
      conditions |-> [check_event_data |-> FALSE,
                      suspicious_keywords |-> << <<"t", "e", "s", "t">> >>]],
     [name |-> "keywords_empty", rule_type |-> "custom",
      conditions |-> [check_event_data |-> TRUE, suspicious_keywords |-> << >>]],
     [name |-> "keywords_capitals",
      conditions |-> [check_event_data |-> TRUE,
                      suspicious_keywords |-> << <<"S", "C", "A", "M">>,
                                                 <<"T", "E", "S", "T">> >>]]}

EngineEvents ==
    {EventContext("payment", << <<"description", StrValue(TestText)>> >>,
                  "user123", "device456", 100),
     [EventContext("login", << >>, None, None, 0) EXCEPT !.ip_address = None]}

EngineProfiles == {ProfileContext, Absent}

\* DecisionCore.__init__
Init ==
    /\ config = create_default_config
    /\ matrix = build_matrix_lookup(config)
    /\ updates = 0
    /\ call = NoCall
    /\ gate = gate_init
    /\ worker = worker_init
    /\ tasks = tasks_init
    /\ enqueues = 0

\* a call of DecisionCore.make_decision
MakeDecision ==
    /\ Idle
    /\ \E rule_results \in SeqsUpTo(ResultPool, MaxResults), event \in CoreEvents,
       customer_segment \in CoreSegments, current_fpr \in CoreFprs :
        /\ call' = [op |-> "make_decision", rule_results |-> rule_results,
                    event |-> event, customer_segment |-> customer_segment,
                    current_fpr |-> current_fpr,
                    result |-> make_decision(config, matrix, rule_results, event,
                                             customer_segment, current_fpr)]
        /\ UNCHANGED <<config, matrix, updates, gate, worker, tasks, enqueues>>

\* the caller repeats the make_decision call it has just made, with the same arguments
MakeDecisionAgain ==
    /\ call.op = "make_decision"
    /\ call' = [op |-> "make_decision_again", rule_results |-> call.rule_results,
                event |-> call.event, customer_segment |-> call.customer_segment,
                current_fpr |-> call.current_fpr,
                first |-> call.result,
                result |-> make_decision(config, matrix, call.rule_results, call.event,
                                         call.customer_segment, call.current_fpr)]
    /\ UNCHANGED <<config, matrix, updates, gate, worker, tasks, enqueues>>

\* a call of DecisionCore._get_risk_band
CoreGetRiskBand ==
    /\ Idle
    /\ \E risk_score \in BandScores :
        /\ call' = [op |-> "core_get_risk_band", risk_score |-> risk_score,
                    result |-> core_get_risk_band(risk_score)]
        /\ UNCHANGED <<config, matrix, updates, gate, worker, tasks, enqueues>>

\* a call of DecisionGate._get_risk_band
GateGetRiskBand ==
    /\ Idle
    /\ \E risk_score \in BandScores :
        /\ call' = [op |-> "gate_get_risk_band", risk_score |-> risk_score,
                    result |-> gate_get_risk_band(risk_score)]
        /\ UNCHANGED <<config, matrix, updates, gate, worker, tasks, enqueues>>

\* a call of TableDrivenRuleEngine.evaluate_rules
EvaluateRules ==
    /\ Idle
    /\ \E rules \in SeqsUpTo(RulePool, MaxRules), context \in RuleContexts :
        /\ call' = [op |-> "evaluate_rules", rules |-> rules, context |-> context,
                    result |-> evaluate_rules(rules, context)]
        /\ UNCHANGED <<config, matrix, updates, gate, worker, tasks, enqueues>>

\* a call of RuleComposition.evaluate on a composition of the given rules and operator
CompositionEvaluate ==
    /\ Idle
    /\ \E rules \in SeqsUpTo(MemberPool, MaxMembers), operator \in Operators,
       context \in StrategyContexts :
        /\ call' = [op |-> "composition_evaluate", rules |-> rules,
                    operator |-> operator, context |-> context,
                    result |-> composition_evaluate(rules, operator, context)]
        /\ UNCHANGED <<config, matrix, updates, gate, worker, tasks, enqueues>>

\* a call of DecisionGate.decide
GateDecide ==
    /\ Idle
    /\ \E context \in GateContexts, matrix_map \in MatrixMaps :
        /\ call' = [op |-> "gate_decide", context |-> context, matrix_map |-> matrix_map,
                    result |-> gate_decide_on(gate.decision_matrix, context,
                                              matrix_map)]
        /\ UNCHANGED <<config, matrix, updates, gate, worker, tasks, enqueues>>

\* a call of TableDrivenRuleEngine._evaluate_single_rule: the evaluator's evaluate
EvaluateSingleRule ==
    /\ Idle
    /\ \E rule \in RulePool \cup CustomRulePool, context \in RuleContexts :
        /\ call' = [op |-> "evaluate_single_rule", rule |-> rule, context |-> context,
                    result |-> evaluate_single_rule(rule, context)]
        /\ UNCHANGED <<config, matrix, updates, gate, worker, tasks, enqueues>>

\* a call of DecisionCore._evaluate_single_rule
CoreEvaluateSingleRule ==
    /\ Idle
    /\ \E rule \in RuleDictPool \cup CustomDictPool, event \in EngineEvents,
       profile \in EngineProfiles :
        /\ call' = [op |-> "core_evaluate_single_rule", rule |-> rule, event |-> event,
                    profile |-> profile,
                    result |-> core_evaluate_single_rule(rule, event, profile)]
        /\ UNCHANGED <<config, matrix, updates, gate, worker, tasks, enqueues>>

\* a call of FraudEngine.evaluate_event; rule_results is what DecisionCore.evaluate_rules
\* returned on the way
EvaluateEvent ==
    /\ Idle
    /\ \E rules \in SeqsUpTo(RuleDictPool, MaxRules), event \in EngineEvents,
       profile \in EngineProfiles :
        /\ call' = [op |-> "evaluate_event", rules |-> rules, event |-> event,
                    profile |-> profile,
                    rule_results |-> core_evaluate_rules(rules, event, profile),
                    result |-> evaluate_event(config, matrix, rules, event, profile)]
        /\ UNCHANGED <<config, matrix, updates, gate, worker, tasks, enqueues>>

Next ==
    \/ EvaluateRules
    \/ EvaluateSingleRule
    \/ CoreEvaluateSingleRule
    \/ EvaluateEvent
    \/ CompositionEvaluate
    \/ MakeDecision
    \/ MakeDecisionAgain
    \/ CoreGetRiskBand
    \/ GateGetRiskBand
    \/ Decide
    \/ DecideAgain
    \/ GateDecide
    \/ Return

Spec == Init /\ [][Next]_vars

\* the next add_matrix_entry / remove_matrix_entry call of the reload, made by the
\* updater while readers go on
ReloadStep ==
    /\ updates < Len(ReloadPlan)
    /\ matrix' = reload_step(matrix, ReloadPlan[updates + 1])
    /\ updates' = updates + 1
    /\ UNCHANGED <<config, call, gate, worker, tasks, enqueues>>

\* DecisionGate.update_matrix is called
UpdateMatrixBegin ==
    /\ gate.pending = << >>
    /\ \E matrix_data \in GateMatrixData :
        gate' = [decision_matrix |-> gate.decision_matrix, matrix_data |-> matrix_data,
                 pending |-> matrix_data, before |-> gate.decision_matrix]
    /\ UNCHANGED <<config, matrix, updates, call, worker, tasks, enqueues>>

\* one turn of the loop of DecisionGate.update_matrix
UpdateMatrixStep ==
    /\ gate.pending # << >>
    /\ LET stored == gate_update_entry(gate.decision_matrix, Head(gate.pending))
       IN  gate' = IF IsRaised(stored) THEN [gate EXCEPT !.pending = << >>]
                   ELSE [gate EXCEPT !.decision_matrix = stored,
                                     !.pending = Tail(gate.pending)]
    /\ UNCHANGED <<config, matrix, updates, call, worker, tasks, enqueues>>

\* a call of DecisionMatrixEngine.get_matrix_entries
GetMatrixEntries ==
    /\ Idle
    /\ call' = [op |-> "get_matrix_entries", result |-> get_matrix_entries(matrix)]
    /\ UNCHANGED <<config, matrix, updates, gate, worker, tasks, enqueues>>

NextReload ==
    \/ ReloadStep
    \/ UpdateMatrixBegin
    \/ UpdateMatrixStep
    \/ GetMatrixEntries
    \/ Decide
    \/ GateDecide
    \/ Return

\* readers of the matrices next to one reload of the engine's matrix and to
\* update_matrix calls on the gate
SpecReload == Init /\ [][NextReload]_vars

NextReplay ==
    \/ EnqueueReplay
    \/ \E p \in ApiTasks : RunOnce(p)
    \/ \E p \in ApiTasks \cup WorkerTasks : ProcessEvent(p)
    \/ \E p \in ApiTasks : RunOnceReturn(p)
    \/ \E p \in WorkerTasks : StartWorker(p)
    \/ \E p \in WorkerTasks : WorkerWake(p)
    \/ StopWorker

\* the replay worker under requests to its router, in any order
SpecReplay == Init /\ [][NextReplay]_vars

\* the worker under enqueue, start and stop requests alone
NextWorker ==
    \/ EnqueueReplay
    \/ \E p \in WorkerTasks : StartWorker(p)
    \/ \E p \in WorkerTasks : ProcessEvent(p)
    \/ \E p \in WorkerTasks : WorkerWake(p)
    \/ StopWorker

\* the event loop resumes every coroutine whose sleep is over
ReplayFairness ==
    /\ \A p \in WorkerTasks : WF_vars(ProcessEvent(p))
    /\ \A p \in WorkerTasks : WF_vars(WorkerWake(p))

SpecReplayLive == Init /\ [][NextWorker]_vars /\ ReplayFairness

(***************************************************************************)
(* Properties of the band classifiers, the aggregator and make_decision    *)
(***************************************************************************)

\* C6: a score s in [0,1] is low iff s < 0.3, med iff 0.3 <= s < 0.6, high iff
\* 0.6 <= s < 0.8, critical iff s >= 0.8 (0.3 -> med, 0.6 -> high, 0.8 -> critical,
\* 1.0 -> critical), and DecisionCore._get_risk_band and DecisionGate._get_risk_band
\* return the same band for every score.
C6_BandClassifier ==
    call.op \in {"core_get_risk_band", "gate_get_risk_band"} =>
        LET s == call.risk_score
            band == call.result
        IN  /\ band \in RiskBand
            /\ band = "low" <=> s < 3000
            /\ band = "med" <=> (3000 <= s /\ s < 6000)
            /\ band = "high" <=> (6000 <= s /\ s < 8000)
            /\ band = "critical" <=> s >= 8000
            /\ s = 3000 => band = "med"
            /\ s = 6000 => band = "high"
            /\ s \in {8000, 10000} => band = "critical"
            /\ band = core_get_risk_band(s)
            /\ band = gate_get_risk_band(s)

\* the boundary 0.3 has been classified by DecisionCore
C6_Witness ==
    /\ call.op = "core_get_risk_band"
    /\ call.risk_score = 3000
    /\ call.result = "med"

MakeDecisionOps == {"make_decision", "make_decision_again"}

\* positions of the fired results of a list
FiredAt(results) == {i \in 1..Len(results) : results[i].fired}

\* the strongest fired risk of a list with a fired result
StrongestFired(results) ==
    CHOOSE x \in {results[i].risk_score : i \in FiredAt(results)} :
        \A i \in FiredAt(results) : x >= results[i].risk_score

C8_HighestRiskWins ==
    call.op \in MakeDecisionOps =>
        call.result.risk_score =
            IF FiredAt(call.rule_results) = {} THEN 0
            ELSE StrongestFired(call.rule_results)

InUnit(x) == 0 <= x /\ x <= One

\* the RuleResults a call of evaluate_rules or of a composition returned
ReturnedResults ==
    IF call.op = "evaluate_rules" THEN {call.result[i] : i \in DOMAIN call.result}
    ELSE IF call.op = "composition_evaluate" /\ ~IsRaised(call.result) THEN {call.result}
    ELSE {}

\* C4: for all inputs, every risk score produced by a rule evaluator, by a composition
\* and by the risk aggregator lies in [0,1], and every confidence returned by
\* DecisionMatrixEngine.decide and by DecisionGate.decide lies in [0,1].
C4_ScoresInUnitInterval ==
    /\ \A r \in ReturnedResults : InUnit(r.risk_score)
    /\ call.op \in MakeDecisionOps => InUnit(call.result.risk_score)
    /\ call.op \in DecideOps => InUnit(call.result.confidence)
    /\ call.op = "gate_decide" => InUnit(call.result.confidence)

\* C5: every RuleResult with fired = false carries risk score exactly 0, whether it comes
\* from an evaluator (guard and error paths included), from the engine's error handler
\* or from an AND / OR / MAJORITY composition.
C5_NotFiredHasZeroRisk ==
    \A r \in ReturnedResults : ~r.fired => r.risk_score = 0

\* one evaluate_rules call returned a guard result, an error-handler result and an
\* ordinary non-firing result, next to a fired one
C5_Witness ==
    /\ call.op = "evaluate_rules"
    /\ \E r \in ReturnedResults : ~r.fired /\ r.reason[1] = "Rule evaluation error:"
    /\ \E r \in ReturnedResults : ~r.fired /\ r.reason[1] = "Invalid rate limit scope:"
    /\ \E r \in ReturnedResults : r.fired /\ r.risk_score > 0
    /\ \A r \in ReturnedResults : ~r.fired => r.risk_score = 0

\* the enabled rules of an evaluate_rules call, in input order
EnabledRules(rules) == SelectSeq(rules, LAMBDA r : r.enabled)

\* the place of the i-th enabled rule in a stable sort by descending priority
Rank(en, i) ==
    1 + Cardinality({j \in DOMAIN en :
                        \/ en[j].priority > en[i].priority
                        \/ (en[j].priority = en[i].priority /\ j < i)})

\* C10: evaluate_rules returns exactly one RuleResult per enabled rule and none for a
\* disabled rule, in non-increasing priority order, rules of equal priority in their
\* input order; a rule that fires never stops the evaluation of the rules after it.
C10_OneResultPerEnabledRuleInPriorityOrder ==
    call.op = "evaluate_rules" =>
        LET en == EnabledRules(call.rules)
        IN  /\ Len(call.result) = Len(en)
            /\ \A i \in DOMAIN en : call.result[Rank(en, i)].rule_name = en[i].name

\* three rules: a disabled one of the highest priority, and two enabled ones of equal
\* priority of which the first fired; the later rule of higher priority comes first
C10_Witness ==
    /\ call.op = "evaluate_rules"
    /\ Len(call.rules) = 3
    /\ ~call.rules[1].enabled
    /\ call.rules[2].enabled /\ call.rules[3].enabled
    /\ call.rules[2].priority < call.rules[3].priority
    /\ Len(call.result) = 2
    /\ call.result[1].rule_name = call.rules[3].name
    /\ call.result[1].fired
    /\ call.result[2].rule_name = call.rules[2].name

(***************************************************************************)
(* Properties of error handling                                            *)
(***************************************************************************)

\* results hold one entry per enabled rule, and the entry of every rule whose evaluator
\* raised is a non-firing result of risk 0 with the rule's name and the error text
ErrorsContained(rules, context, results) ==
    LET en == EnabledRules(rules)
    IN  /\ Len(results) = Len(en)
        /\ \A i \in DOMAIN en :
              LET outcome == evaluate_single_rule(en[i], context)
                  r == results[Rank(en, i)]
              IN  /\ r.rule_name = en[i].name
                  /\ IsRaised(outcome) =>
                        /\ ~r.fired
                        /\ r.risk_score = 0
                        /\ r.reason[1] = "Rule evaluation error:"
                        /\ r.reason[2] = outcome.raised

EvaluatorKinds == {"rate_limit", "velocity", "device", "custom", "geolocation", "behavior"}

\* C12: the evaluate of each rule evaluator (rate limit, velocity, device, custom keyword,
\* geolocation, behavior) is total: for every conditions map and every context it returns
\* a RuleResult and never raises; a configuration error such as max_events = 0 gives a
\* non-firing result.
C12_EvaluatorsTotal ==
    (/\ call.op = "evaluate_single_rule"
     /\ call.rule.rule_type.enum # "str"
     /\ call.rule.rule_type.value \in EvaluatorKinds
     /\ ~IsNone(call.rule.conditions))
    => /\ ~IsRaised(call.result)
       /\ DOMAIN call.result = {"fired", "reason", "risk_score", "rule_name"}
       /\ Get(call.rule.conditions, "max_events", 100) = 0 => ~call.result.fired
       /\ Get(call.rule.conditions, "max_velocity", 10) = 0 => ~call.result.fired

\* r is the non-firing diagnostic result of a rule of unknown kind
UnknownKindResult(r, name, kind) ==
    /\ ~IsRaised(r)
    /\ ~r.fired
    /\ r.risk_score = 0
    /\ r.rule_name = name
    /\ r.reason[1] = "Unknown rule type:"
    /\ r.reason[2] = kind

\* C13: a rule whose kind is not a known rule kind produces a non-firing RuleResult with
\* a reason naming the unknown kind; it neither raises to the caller nor is left out of
\* the result list, in TableDrivenRuleEngine and in DecisionCore alike.
C13_UnknownKindReported ==
    /\ call.op = "evaluate_rules" =>
          LET en == EnabledRules(call.rules)
          IN  \A i \in DOMAIN en :
                (en[i].rule_type.enum = "other"
                    /\ en[i].rule_type.value \notin EvaluatorKinds)
                => /\ Len(call.result) = Len(en)
                   /\ UnknownKindResult(call.result[Rank(en, i)], en[i].name,
                                        en[i].rule_type.value)
    /\ call.op = "core_evaluate_single_rule" =>
          (Get(call.rule, "rule_type", "custom") \notin RuleTypeValues
           => UnknownKindResult(call.result, Get(call.rule, "name", "unnamed"),
                                Get(call.rule, "rule_type", "custom")))
    /\ call.op = "evaluate_event" =>
          \A i \in DOMAIN call.rules :
             (Get(call.rules[i], "rule_type", "custom") \notin RuleTypeValues
                /\ Get(call.rules[i], "enabled", TRUE))
             => \E j \in DOMAIN call.rule_results :
                    UnknownKindResult(call.rule_results[j],
                                      Get(call.rules[i], "name", "unnamed"),
                                      Get(call.rules[i], "rule_type", "custom"))

(***************************************************************************)
(* Properties of compositions                                              *)
(***************************************************************************)

\* the member evaluations of the composition called last, in member order
Members == MemberResults(call.rules, call.context)

\* the indices of the members that fired, and their risks
FiredMembers == {i \in DOMAIN Members : Members[i].fired}

FiredRisks == {Members[i].risk_score : i \in FiredMembers}

SetMax(S) == CHOOSE m \in S : \A x \in S : x <= m

RECURSIVE SetSum(_)
SetSum(I) ==
    IF I = {} THEN 0
    ELSE LET i == CHOOSE j \in I : TRUE IN Members[i].risk_score + SetSum(I \ {i})

CompositionCalled(operator) ==
    call.op = "composition_evaluate" /\ call.operator = operator

\* C14: an AND composition fires if and only if all of its member evaluations fired (and
\* there is at least one), and then its risk is the maximum of the member risks; otherwise
\* it does not fire and has risk 0.
C14_AndComposition ==
    CompositionCalled("AND") =>
        LET all == Members # << >> /\ FiredMembers = DOMAIN Members
        IN  /\ call.result.fired = all
            /\ all => call.result.risk_score = SetMax(FiredRisks)
            /\ ~all => call.result.risk_score = 0

\* an AND of two members that both fired, with different risks
C14_Witness ==
    /\ CompositionCalled("AND")
    /\ Len(Members) >= 2
    /\ FiredMembers = DOMAIN Members
    /\ Cardinality(FiredRisks) >= 2
    /\ call.result.fired
    /\ call.result.risk_score = SetMax(FiredRisks)

\* C15: a MAJORITY composition fires if and only if strictly more than half of its
\* evaluated members fired (exactly half does not fire), and then its risk is the mean of
\* the fired members' risks; an OR composition fires iff at least one member fired, with
\* risk the maximum over the fired members.
C15_MajorityAndOrComposition ==
    /\ CompositionCalled("MAJORITY") =>
          LET k == Cardinality(FiredMembers)
              most == 2 * k > Len(Members)
          IN  /\ call.result.fired = most
              /\ most => /\ call.result.risk_score * k <= SetSum(FiredMembers)
                         /\ SetSum(FiredMembers) < (call.result.risk_score + 1) * k
              /\ ~most => call.result.risk_score = 0
    /\ CompositionCalled("OR") =>
          /\ call.result.fired = (FiredMembers # {})
          /\ FiredMembers # {} => call.result.risk_score = SetMax(FiredRisks)
          /\ FiredMembers = {} => call.result.risk_score = 0

\* a MAJORITY of three members of which two fired, with different risks
C15_Witness ==
    /\ CompositionCalled("MAJORITY")
    /\ Len(Members) = 3
    /\ Cardinality(FiredMembers) = 2
    /\ Cardinality(FiredRisks) = 2
    /\ call.result.fired
    /\ call.result.risk_score * 2 = SetSum(FiredMembers)

\* C16: evaluating a composition never aborts: a member whose evaluation raises counts as
\* a non-firing member, the remaining members are still evaluated, and
\* RuleComposition.evaluate returns a RuleResult for every composition, also for one whose
\* operator is not AND, OR or MAJORITY.
C16_CompositionNeverAborts ==
    call.op = "composition_evaluate" =>
        /\ ~IsRaised(call.result)
        /\ DOMAIN call.result = {"fired", "reason", "risk_score", "rule_name"}
        /\ Len(Members) = Len(SelectSeq(call.rules, LAMBDA r : r.enabled))
        /\ \A i \in DOMAIN Members :
              Members[i].reason[1] = "Rule evaluation error:" => ~Members[i].fired

(***************************************************************************)
(* Properties of DecisionCore.make_decision                                *)
(***************************************************************************)

\* the indices of the fired rule results of the make_decision call made last
FiredIndices == {i \in DOMAIN call.rule_results : call.rule_results[i].fired}

\* the place of fired result i among the fired results
FiredPlace(i) == 1 + Cardinality({j \in FiredIndices : j < i})

\* what the matrix engine answers for the band of the reported risk score
MatrixAnswer ==
    matrix_decide(config, matrix, call.event, core_get_risk_band(call.result.risk_score),
                  call.customer_segment, call.current_fpr)

C18_DefaultMatrixDecisions ==
    (/\ call.op = "make_decision"
     /\ call.event.event_type = "payment"
     /\ call.customer_segment = "new_user"
     /\ call.current_fpr = 100)
    => /\ FiredIndices = {} => call.result.decision = "allow"
       /\ (\E i \in FiredIndices :
              FiredIndices = {i} /\ call.rule_results[i].risk_score = 7000)
          => call.result.decision = "review"
       /\ (\E i \in FiredIndices : call.rule_results[i].risk_score = 9000)
          => call.result.decision = "deny"

(***************************************************************************)
(* Properties of the matrix as shared state                                *)
(***************************************************************************)

\* the composite key of a stored entry
KeyOf(entry) ==
    entry.event_type \o ":" \o entry.risk_band \o ":" \o entry.customer_segment

\* C19: in every reachable state of a DecisionMatrixEngine (built from any entry list,
\* also one with repeated keys, and after any add_matrix_entry and remove_matrix_entry
\* calls) the lookup map holds at most one entry per composite key, and every stored
\* entry is filed under the key computed from its own three fields.
C19_OneEntryPerKey ==
    /\ \A k \in DOMAIN matrix : k = KeyOf(matrix[k])
    /\ \A k1, k2 \in DOMAIN matrix : KeyOf(matrix[k1]) = KeyOf(matrix[k2]) => k1 = k2

\* the default matrix after one entry was added and another removed at runtime
C19_Witness ==
    /\ updates = 2
    /\ call.op = "remove_matrix_entry"
    /\ "signup:high:premium" \in DOMAIN matrix
    /\ "login:low:returning" \notin DOMAIN matrix
    /\ Cardinality(DOMAIN matrix) = 8

\* the engine's matrix before the reload and after all of its calls
OldMatrix == build_matrix_lookup(config)

NewMatrix == reload(OldMatrix, ReloadPlan)

\* C20: while a matrix update is in flight (DecisionGate.update_matrix over a list of
\* entries, or a reload made of add_matrix_entry / remove_matrix_entry calls) a
\* concurrent reader never observes a partially updated matrix: what it reads comes
\* from the complete old entry set or from the complete new entry set.
C20_NoPartialMatrixVisible ==
    /\ call.op = "get_matrix_entries" =>
          call.result \in {get_matrix_entries(OldMatrix), get_matrix_entries(NewMatrix)}
    /\ call.op = "decide" =>
          call.result \in
             {matrix_decide(config, OldMatrix, call.event, call.risk_band,
                            call.customer_segment, call.current_fpr),
              matrix_decide(config, NewMatrix, call.event, call.risk_band,
                            call.customer_segment, call.current_fpr)}
    /\ gate.pending # << >> =>
          gate.decision_matrix \in
             {gate.before, gate_update_matrix(gate.before, gate.matrix_data)}

(***************************************************************************)
(* Runtime changes of the matrix                                           *)
(***************************************************************************)

\* the two lookup maps agree on every key but k
SameElsewhere(m1, m2, k) ==
    \A k2 \in (DOMAIN m1 \cup DOMAIN m2) \ {k} :
        k2 \in DOMAIN m1 /\ k2 \in DOMAIN m2 /\ m1[k2] = m2[k2]

\* what an add_matrix_entry or remove_matrix_entry step does to the lookup map
C21_StepChangesOneKey ==
    /\ call'.op = "add_matrix_entry" =>
          /\ KeyOf(call'.entry) \in DOMAIN matrix'
          /\ matrix'[KeyOf(call'.entry)] = call'.entry
          /\ SameElsewhere(matrix, matrix', KeyOf(call'.entry))
    /\ call'.op = "remove_matrix_entry" =>
          LET key == call'.event_type \o ":" \o call'.risk_band \o ":"
                       \o call'.customer_segment
          IN  /\ key \notin DOMAIN matrix'
              /\ SameElsewhere(matrix, matrix', key)
              /\ key \notin DOMAIN matrix => matrix' = matrix
    /\ call'.op \notin {"add_matrix_entry", "remove_matrix_entry"} => matrix' = matrix

\* what a decide call answers from the lookup map it finds
C21_DecideReadsCurrentMatrix ==
    call.op = "decide" =>
        /\ (CallKey \in DOMAIN matrix /\ call.current_fpr <= matrix[CallKey].max_fpr) =>
              call.result.action = matrix[CallKey].action
        /\ CallKey \notin DOMAIN matrix =>
              /\ Flag(call.result.metadata, "is_default")
              /\ call.result.action = config.default_action

\* C21: runtime changes of the matrix take effect on the next lookup and only on the
\* changed key: after add_matrix_entry(e) the lookup map holds e under e's key (in place
\* of any earlier entry) and a decide for that key with current_fpr <= e.max_fpr returns
\* e.action; after remove_matrix_entry the key is gone and a decide for it returns the
\* default decision; removing an absent key changes nothing; the entries of all other
\* keys, and so the decisions for them, are the same as before.
C21_RuntimeChangesTakeEffect ==
    /\ [] C21_DecideReadsCurrentMatrix
    /\ [][C21_StepChangesOneKey]_vars

\* a decide that finds the entry an add_matrix_entry call has put in place of the
\* configured one
C21_Witness ==
    /\ call.op = "decide"
    /\ CallKey = "payment:critical:new_user"
    /\ CallKey \in DOMAIN OldMatrix
    /\ CallKey \in DOMAIN matrix
    /\ OldMatrix[CallKey].action # "allow"
    /\ matrix[CallKey].action = "allow"
    /\ call.current_fpr <= matrix[CallKey].max_fpr
    /\ call.result.action = "allow"

(***************************************************************************)
(* Properties of single evaluators                                         *)
(***************************************************************************)

\* the call evaluates a rate-limit rule that has a conditions map
RateLimitCalled ==
    /\ call.op = "evaluate_single_rule"
    /\ call.rule.rule_type.enum = "RuleType"
    /\ call.rule.rule_type.value = "rate_limit"
    /\ ~IsNone(call.rule.conditions)

\* the call returned a result that fired
CallFired == ~IsRaised(call.result) /\ call.result.fired

\* C22: a rate-limit rule with a supported scope (ip, profile, device) fires exactly when
\* the event count of that scope is greater than max_events (a count equal to max_events
\* does not fire), and then reports the risk min(0.9, count / max_events); with
\* max_events = 5 and 6 events on the IP scope it fires with risk 0.9; a rule with an
\* unsupported scope, or with scope profile and no profile, never fires.
C22_RateLimitFiresAboveMax ==
    RateLimitCalled =>
        LET scope == Get(call.rule.conditions, "scope", "ip")
            max_events == Get(call.rule.conditions, "max_events", 100)
            count == Get(call.context.event_counts, scope, 0)
        IN  IF scope \notin {"ip", "profile", "device"} THEN ~CallFired
            ELSE IF scope = "profile" /\ IsFalsy(call.context.profile) THEN ~CallFired
            ELSE /\ CallFired <=> count > max_events
                 /\ CallFired =>
                       call.result.risk_score = Min(9000, Ratio(count, max_events))
                 /\ (max_events = 5 /\ count = 6 /\ scope = "ip") =>
                       CallFired /\ call.result.risk_score = 9000

\* the call evaluates a custom keyword rule that has a conditions map
CustomCalled ==
    \/ /\ call.op = "evaluate_single_rule"
       /\ call.rule.rule_type.enum = "RuleType"
       /\ call.rule.rule_type.value = "custom"
       /\ ~IsNone(call.rule.conditions)
    \/ /\ call.op = "core_evaluate_single_rule"
       /\ Get(call.rule, "rule_type", "custom") = "custom"
       /\ ~IsNone(Get(call.rule, "conditions", Absent))

\* the conditions and the event data of the custom rule call
CustomConditions ==
    IF call.op = "evaluate_single_rule" THEN call.rule.conditions
    ELSE Get(call.rule, "conditions", Absent)

CustomEventData ==
    IF call.op = "evaluate_single_rule" THEN call.context.event.event_data
    ELSE call.event.event_data

CustomKeywords == Get(CustomConditions, "suspicious_keywords", << >>)

\* the keyword occurs, case-insensitively, in a string-valued entry of the event data
KeywordOccurs(keyword) ==
    \E i \in DOMAIN CustomEventData :
        /\ CustomEventData[i][2].type = "str"
        /\ Contains(Lower(keyword), Lower(CustomEventData[i][2].s))

\* C23: a custom keyword rule fires exactly when check_event_data is true, the keyword
\* list is not empty and some keyword occurs (case-insensitively) in some string-valued
\* entry of the event data; the risk is then exactly 0.6 and the reason names a matched
\* keyword; values that are no strings are never matched; in every other case the result
\* does not fire and has risk 0.
C23_CustomKeywordRule ==
    CustomCalled =>
        /\ ~IsRaised(call.result)
        /\ call.result.fired <=>
              /\ Get(CustomConditions, "check_event_data", FALSE)
              /\ CustomKeywords # << >>
              /\ \E j \in DOMAIN CustomKeywords : KeywordOccurs(CustomKeywords[j])
        /\ call.result.fired =>
              /\ call.result.risk_score = 6000
              /\ call.result.reason[1] = "Suspicious keyword detected:"
              /\ \E j \in DOMAIN CustomKeywords :
                    /\ call.result.reason[2] = CustomKeywords[j]
                    /\ KeywordOccurs(CustomKeywords[j])
        /\ ~call.result.fired => call.result.risk_score = 0

\* a rule whose second keyword, written in capitals, is found in a value written in
\* mixed case, next to a numeric value
C23_Witness ==
    /\ call.op = "evaluate_single_rule"
    /\ call.rule.name = "keywords_capitals"
    /\ call.result.fired
    /\ call.result.risk_score = 6000
    /\ call.result.reason = <<"Suspicious keyword detected:", <<"T", "E", "S", "T">> >>
    /\ \E i \in DOMAIN CustomEventData : CustomEventData[i][2].type # "str"
    /\ ~ \E i \in DOMAIN CustomEventData :
            /\ CustomEventData[i][2].type = "str"
            /\ Contains(<<"T", "E", "S", "T">>, CustomEventData[i][2].s)

(***************************************************************************)
(* DecisionGate.decide next to update_matrix                               *)
(***************************************************************************)

\* the default action of a band and the FPR up to which it stands, as the specification
\* lists them
SpecGateDefault(band) ==
    CASE band = "low" -> [action |-> "allow", max_fpr |-> 100]
      [] band = "med" -> [action |-> "step_up", max_fpr |-> 80]
      [] band = "high" -> [action |-> "review", max_fpr |-> 50]
      [] band = "critical" -> [action |-> "deny", max_fpr |-> 20]

\* the key a DecisionGate.decide call looks up
GateCallKey ==
    call.context.event_type \o ":" \o gate_get_risk_band(call.context.risk_score) \o ":"
       \o call.context.customer_segment

\* C30: the result of DecisionGate.decide depends only on context and matrix_map: no
\* sequence of update_matrix calls, finished or in flight, changes the result of a decide
\* with the same arguments (it is the result a gate that was never updated gives); when
\* matrix_map is absent or lacks the key the action is the default of the band
\* (low allow, med step_up, high review, critical deny), escalated to review when
\* latest_fpr exceeds the default's max_fpr.
C30_GateDecideIgnoresStoredMatrix ==
    call.op = "gate_decide" =>
        /\ call.result = gate_decide(call.context, call.matrix_map)
        /\ (IsFalsy(call.matrix_map) \/ GateCallKey \notin DOMAIN call.matrix_map) =>
              LET default == SpecGateDefault(gate_get_risk_band(call.context.risk_score))
              IN  call.result.action =
                     IF call.context.latest_fpr > default.max_fpr THEN "review"
                     ELSE default.action

\* a decide without a map for a key that update_matrix has stored in the gate with a
\* lower max_fpr than the band's default: the stored entry would escalate, the default
\* does not
C30_Witness ==
    /\ call.op = "gate_decide"
    /\ IsFalsy(call.matrix_map)
    /\ GateCallKey \in DOMAIN gate.decision_matrix
    /\ gate.decision_matrix[GateCallKey].max_fpr < call.context.latest_fpr
    /\ call.context.latest_fpr <= 100
    /\ call.result.action = "allow"

(***************************************************************************)
(* Properties of the replay worker                                         *)
(***************************************************************************)

\* the job ids in the queue
Queued == {worker.processing_queue[i] : i \in DOMAIN worker.processing_queue}

\* what one enqueue_replay call does to the job table and to the queue
C24_EnqueueStep ==
    enqueues' # enqueues =>
        LET job_id == call'.result
        IN  /\ job_id \notin DOMAIN worker.jobs
            /\ DOMAIN worker'.jobs = DOMAIN worker.jobs \cup {job_id}
            /\ worker'.jobs[job_id].id = job_id
            /\ worker'.jobs[job_id].status = "pending"
            /\ worker'.jobs[job_id].processed_count = 0
            /\ worker'.jobs[job_id].event_ids = call'.event_ids
            /\ worker'.jobs[job_id].total_count = Len(call'.event_ids)
            /\ worker'.jobs[job_id].schema_version = call'.schema_version
            /\ worker'.jobs[job_id].reason = call'.reason
            /\ worker'.processing_queue = Append(worker.processing_queue, job_id)
            /\ \A other \in DOMAIN worker.jobs : worker'.jobs[other] = worker.jobs[other]

\* C24: enqueue_replay registers a new job under a fresh id that was not in the job table
\* before, with status PENDING, processed_count 0, total_count equal to the number of
\* event ids and the given schema version and reason, and puts it on the queue; it
\* changes no other job; after any sequence of enqueue calls the job table holds one job
\* per enqueue call.
C24_EnqueueRegistersFreshJob ==
    /\ [](Cardinality(DOMAIN worker.jobs) = enqueues)
    /\ [][C24_EnqueueStep]_vars

\* two jobs enqueued within the same second, the second one next to a job that a
\* run_once call has already finished
C24_Witness ==
    /\ enqueues = 2
    /\ call.op = "enqueue_replay"
    /\ Cardinality(DOMAIN worker.jobs) = 2
    /\ \A j \in DOMAIN worker.jobs : worker.jobs[j].created_at = "20260101_000001"
    /\ \E j \in DOMAIN worker.jobs : worker.jobs[j].status = "completed"
    /\ worker.jobs[call.result].status = "pending"

\* the coroutines that are inside a run_once call or hold its result
InRunOnce == {p \in DOMAIN tasks : tasks[p] # NoTask}

\* run_once has its result: the request is about to return it, the loop of
\* start_worker sleeps after logging it
FinishedRunOnce(p) == tasks[p].pc \in {"return", "sleep"}

\* the sum of processed_count over a list of jobs
RECURSIVE ProcessedCounts(_)
ProcessedCounts(job_ids) ==
    IF job_ids = << >> THEN 0
    ELSE worker.jobs[Head(job_ids)].processed_count + ProcessedCounts(Tail(job_ids))

\* C25: a single run_once(limit) call processes at most limit events in total over all
\* the jobs it takes, and processed_events in its result is never greater than limit; on
\* an empty queue it returns processed = 0 and changes no job; a job taken with more
\* events left than the limit allows ends COMPLETED with processed_count equal to the
\* number of its events processed in that call.
C25_RunOnceWithinLimit ==
    \A p \in InRunOnce :
        /\ tasks[p].handled <= tasks[p].limit
        /\ tasks[p].processed_events <= tasks[p].limit
        /\ (FinishedRunOnce(p) /\ tasks[p].no_jobs) =>
              /\ run_once_result(tasks[p]).processed = 0
              /\ tasks[p].taken = << >>
        /\ (FinishedRunOnce(p) /\ ~tasks[p].no_jobs) =>
              /\ run_once_result(tasks[p]).processed_events = ProcessedCounts(tasks[p].taken)
              /\ \A i \in DOMAIN tasks[p].taken :
                    LET job == worker.jobs[tasks[p].taken[i]]
                    IN  job.status = "completed" =>
                           job.processed_count <= Min(job.total_count, tasks[p].limit)

\* some event of the list raises when it is processed
SomeRaises(event_ids) == \E i \in DOMAIN event_ids : raises(event_ids[i])

\* the jobs of the list that have ended
RECURSIVE EndedJobs(_)
EndedJobs(job_ids) ==
    IF job_ids = << >> THEN 0
    ELSE (IF worker.jobs[Head(job_ids)].status \in {"completed", "failed"} THEN 1 ELSE 0)
         + EndedJobs(Tail(job_ids))

\* how jobs that have ended look, and what a run_once call has counted so far
C26_FailedJobsAccounted ==
    /\ \A j \in DOMAIN worker.jobs :
          LET job == worker.jobs[j]
          IN  /\ job.status = "failed" =>
                    /\ job.error_message \notin {None, ""}
                    /\ job.completed_at # None
                    /\ job.processed_count = 0
              /\ job.status = "completed" =>
                    /\ ~SomeRaises(SubSeq(job.event_ids, 1, job.processed_count))
                    /\ job.error_message = None
    /\ \A p \in InRunOnce :
          /\ tasks[p].processed_jobs = EndedJobs(tasks[p].taken)
          /\ tasks[p].processed_events = ProcessedCounts(tasks[p].taken)

\* the step of a run_once call in which the job it holds ends
C26_JobEndStep ==
    \A p \in DOMAIN tasks :
        (tasks[p].pc = "process_event" /\ worker'.jobs[tasks[p].job].status # "processing")
        => LET job_id == tasks[p].job
           IN  IF SomeRaises(tasks[p].events_to_process)
               THEN /\ worker'.jobs[job_id].status = "failed"
                    /\ tasks'[p].processed_jobs > tasks[p].processed_jobs
                    /\ tasks'[p].processed_events = tasks[p].processed_events
                    /\ tasks'[p].pc \in {"process_event", "return", "sleep"}
                    /\ tasks'[p].pc = "process_event" =>
                          /\ tasks'[p].job # job_id
                          /\ tasks'[p].job = Head(worker.processing_queue)
                    /\ tasks'[p].pc \in {"return", "sleep"} =>
                          \/ worker'.processing_queue = << >>
                          \/ tasks'[p].processed_events >= tasks'[p].limit
               ELSE worker'.jobs[job_id].status = "completed"

\* C26: if the processing of any event of a job raises, run_once ends that job FAILED
\* with a non-empty error_message and a completion time, never COMPLETED; the job still
\* counts in processed_jobs and contributes 0 to processed_events; run_once returns
\* normally and goes on with the next queued job.
C26_FailedJobHandled ==
    /\ [] C26_FailedJobsAccounted
    /\ [][C26_JobEndStep]_vars

\* a run_once request about to return after a job that failed and the next queued job,
\* which it completed
C26_Witness ==
    /\ tasks["request"].pc = "return"
    /\ Len(tasks["request"].taken) = 2
    /\ worker.jobs[tasks["request"].taken[1]].status = "failed"
    /\ worker.jobs[tasks["request"].taken[1]].error_message
          = "Failed to process 1 out of 2 events"
    /\ worker.jobs[tasks["request"].taken[2]].status = "completed"
    /\ run_once_result(tasks["request"]).processed_jobs = 2
    /\ run_once_result(tasks["request"]).processed_events = 2

\* the coroutines that hold the job between taking it from the queue and ending it
Holders(job_id) == {p \in DOMAIN tasks : tasks[p].pc = "process_event" /\ tasks[p].job = job_id}

\* how often the job id occurs in the queue
TimesQueued(job_id) ==
    Cardinality({i \in DOMAIN worker.processing_queue : worker.processing_queue[i] = job_id})

\* the moves of a job's status within one step
StatusMoves ==
    {<<"pending", "processing">>, <<"processing", "completed">>, <<"processing", "failed">>}

\* where a job is, by its status
C28_JobsInOnePlace ==
    \A j \in DOMAIN worker.jobs :
        LET job == worker.jobs[j]
        IN  /\ job.status \in ReplayStatus
            /\ job.processed_count <= job.total_count
            /\ TimesQueued(j) + Cardinality(Holders(j)) <= 1
            /\ job.status = "pending" <=> TimesQueued(j) = 1
            /\ job.status = "processing" <=> Cardinality(Holders(j)) = 1
            /\ \A p, q \in InRunOnce :
                  \A i \in DOMAIN tasks[p].taken, k \in DOMAIN tasks[q].taken :
                      (tasks[p].taken[i] = j /\ tasks[q].taken[k] = j) => (p = q /\ i = k)

\* what a step may do to a job that exists
C28_JobStep ==
    \A j \in DOMAIN worker.jobs :
        /\ j \in DOMAIN worker'.jobs
        /\ \/ worker'.jobs[j].status = worker.jobs[j].status
           \/ <<worker.jobs[j].status, worker'.jobs[j].status>> \in StatusMoves
        /\ TimesQueued(j) = 0 => TimesQueued(j)' = 0
        /\ \A p \in DOMAIN tasks :
              (p \in Holders(j)' /\ p \notin Holders(j)) =>
                  worker.jobs[j].status = "pending" /\ j = Head(worker.processing_queue)

\* C28: the status of a job only moves PENDING -> PROCESSING -> COMPLETED or FAILED;
\* COMPLETED and FAILED are never left and no job returns to PENDING; a job is taken from
\* the queue and processed by at most one run_once call, also when the run_once calls of
\* the background worker and of the API interleave, and it is never put back on the
\* queue; processed_count never exceeds total_count.
C28_JobLifecycle ==
    /\ [] C28_JobsInOnePlace
    /\ [][C28_JobStep]_vars

\* a run_once request and the loop of the worker in the middle of different jobs at the
\* same time
C28_Witness ==
    /\ tasks["request"].pc = "process_event"
    /\ tasks["worker_1"].pc = "process_event"
    /\ tasks["request"].job # tasks["worker_1"].job
    /\ worker.jobs[tasks["request"].job].status = "processing"
    /\ worker.jobs[tasks["worker_1"].job].status = "processing"
    /\ worker.processing_queue = << >>

\* the start_worker calls whose loop has not ended
ActiveLoops == {p \in WorkerTasks : tasks[p] # NoTask}

\* the jobs that have not ended
Unfinished == {j \in DOMAIN worker.jobs : worker.jobs[j].status \in {"pending", "processing"}}

\* a start_worker call that enters its loop leaves is_running set
C27_StartSetsRunning ==
    \A p \in WorkerTasks : (tasks[p] = NoTask /\ tasks'[p] # NoTask) => worker'.is_running

\* the jobs that wait are brought to their end while a worker loop runs
C27_JobsEnd ==
    (Unfinished # {} /\ ActiveLoops # {}) ~> (Unfinished = {} \/ ActiveLoops = {})

\* C27: worker lifecycle: after start_worker, is_running is true and queued PENDING jobs
\* are eventually taken and brought to COMPLETED or FAILED while the worker runs; after
\* stop_worker, is_running is false and the worker loop eventually terminates (it starts
\* no further run_once cycle once it has observed the stop).
C27_WorkerLifecycle ==
    /\ [][C27_StartSetsRunning]_vars
    /\ C27_JobsEnd
    /\ \A p \in WorkerTasks : (tasks[p] # NoTask /\ ~worker.is_running) ~> (tasks[p] = NoTask)

\* C29: at most one replay worker loop is active at any time, under every interleaving
\* of start_worker and stop_worker calls: a start while a loop is active returns without
\* starting a second loop, and a stop followed by a new start never leaves two loops
\* running.
C29_AtMostOneWorkerLoop == Cardinality(ActiveLoops) <= 1

====
